---------------------------- MODULE Spec2Model ----------------------------
(***************************************************************************)
(* Tool-calling orchestration core of the ai_gguf module.                  *)
(*                                                                         *)
(*   - ToolCallState (tool_call_state.h / .cpp): the streaming detector.   *)
(*   - nativeGenerateStream (ai_gguf.cpp): the per-round token loop that   *)
(*     routes decoded characters into the detector and the token sink.     *)
(*   - ToolCallManager.generateWithTools (Kotlin): the multi-round loop.   *)
(*                                                                         *)
(* Byte strings are sequences of one-character strings.  Positions inside  *)
(* the std::string helpers (find, substr) are 0-based as in C++.           *)
(*                                                                         *)
(* Three specifications share the variables:                               *)
(*   SpecDetector  free sequences of accumulate / reset / extract calls    *)
(*   SpecFeed      one byte stream fed to the detector one byte at a time  *)
(*   Spec          generateWithTools driving the native token loop         *)
(***************************************************************************)
EXTENDS Integers, Sequences, FiniteSets, TLC

(***************************************************************************)
(* Bounds of the model.                                                    *)
(***************************************************************************)
\* accumulate calls explored between two resets in SpecDetector
MaxCalls == 4
\* pieces concatenated into the byte stream of SpecFeed
MaxStreamPieces == 4
\* config.maxRounds is drawn from 0..MaxRounds
MaxRounds == 2
\* to_generate (tokens sampled per native call) is MaxTokens
MaxTokens == 3
MaxHandles == 3
\* threads calling into the native library
MaxThreads == 2
\* function wrappers a caller puts around one function object
MaxWrap == 3
\* bytes of the stream passed to the UTF-8 decoder
MaxBytes == 4

(***************************************************************************)
(* std::string helpers                                                     *)
(***************************************************************************)
\* std::string::npos; (size_t)npos + 1 wraps to 0, and so does NPOS + 1
NPOS == -1

\* s.find(pat, pos): least 0-based index i >= pos at which pat occurs
find(s, pat, pos) ==
    LET hits == { i \in 0..(Len(s) - Len(pat)) :
                    i >= pos /\ SubSeq(s, i + 1, i + Len(pat)) = pat }
    IN  IF hits = {} THEN NPOS
        ELSE CHOOSE i \in hits : \A j \in hits : i <= j

\* s.substr(pos, n)
substr(s, pos, n) == SubSeq(s, pos + 1, pos + n)

\* literal keys searched by the detector
TOOL_CALLS_KEY == <<"\"", "t", "o", "o", "l", "_", "c", "a", "l", "l", "s", "\"">>
NAME_KEY == <<"\"", "n", "a", "m", "e", "\"">>
ARGS_KEY == <<"\"", "a", "r", "g", "u", "m", "e", "n", "t", "s", "\"">>
\* "{\"tool_calls\":[" and "]}" of the wrapped payload
WRAP_OPEN == <<"{">> \o TOOL_CALLS_KEY \o <<":", "[">>
WRAP_CLOSE == <<"]", "}">>
\* the default name "tool"
DEFAULT_NAME == <<"t", "o", "o", "l">>

(***************************************************************************)
(* ToolCallState                                                           *)
(***************************************************************************)
\* a freshly constructed / reset detector
DetectorReset ==
    [buf |-> <<>>, brace_depth |-> 0, collecting |-> FALSE, likely_tool_call |-> FALSE]

\* the loop body of accumulate for chunk[i..]; ret is the return value and
\* used the number of chunk characters consumed when it returned
RECURSIVE accumulate_loop(_, _, _)
accumulate_loop(st, chunk, i) ==
    IF i > Len(chunk)
    THEN [st |-> st, ret |-> FALSE, used |-> Len(chunk)]
    ELSE LET c == chunk[i] IN
         IF ~st.collecting
         THEN IF c = "{"
              THEN accumulate_loop([st EXCEPT !.collecting = TRUE,
                                              !.brace_depth = 1,
                                              !.buf = <<c>>], chunk, i + 1)
              ELSE accumulate_loop(st, chunk, i + 1)
         ELSE LET pushed == [st EXCEPT !.buf = Append(st.buf, c)] IN
              IF c = "{"
              THEN accumulate_loop([pushed EXCEPT !.brace_depth = @ + 1], chunk, i + 1)
              ELSE IF c = "}"
              THEN LET dec == [pushed EXCEPT !.brace_depth = @ - 1] IN
                   IF dec.brace_depth = 0
                   THEN [st |-> dec, ret |-> TRUE, used |-> i]
                   ELSE accumulate_loop(dec, chunk, i + 1)
              ELSE accumulate_loop(pushed, chunk, i + 1)

\* ToolCallState::accumulate
accumulate(st, chunk) == accumulate_loop(st, chunk, 1)

\* reset that forgets to zero the brace depth
reset_keeps_depth(st) ==
    [st EXCEPT !.collecting = FALSE, !.likely_tool_call = FALSE, !.buf = <<>>]

\* ToolCallState::reset
reset(st) == DetectorReset

\* an is_collecting that never reports a collection in progress
is_collecting_never(st) == FALSE

\* ToolCallState::is_collecting
is_collecting(st) == st.collecting

\* ToolCallState::has_tool_calls_wrapper
has_tool_calls_wrapper(b) == find(b, TOOL_CALLS_KEY, 0) /= NPOS

\* the name read by extract_tool_call; name starts empty at the call site
extract_name(b) ==
    LET npos == find(b, NAME_KEY, 0) IN
    IF npos = NPOS THEN <<>>
    ELSE LET colon == find(b, <<":">>, npos) IN
         IF colon = NPOS THEN <<>>
         ELSE LET q1 == find(b, <<"\"">>, colon + 1)
                  q2 == find(b, <<"\"">>, q1 + 1)
              IN  IF q1 /= NPOS /\ q2 /= NPOS
                  THEN substr(b, q1 + 1, q2 - q1 - 1)
                  ELSE <<>>

\* extraction that accepts only the "tool_calls" wrapper (no bare calls)
extract_wrapper_only(b) ==
    IF ~has_tool_calls_wrapper(b)
    THEN [ok |-> FALSE, name |-> <<>>, payload |-> <<>>]
    ELSE [ok |-> TRUE,
          name |-> IF extract_name(b) = <<>> THEN DEFAULT_NAME ELSE extract_name(b),
          payload |-> b]

\* ToolCallState::extract_tool_call: [ok, name, payload]
extract_tool_call(b) ==
    LET has_wrapper == has_tool_calls_wrapper(b)
        has_name == find(b, NAME_KEY, 0) /= NPOS
        has_args == find(b, ARGS_KEY, 0) /= NPOS
        found == extract_name(b)
    IN  IF ~has_wrapper /\ ~(has_name /\ has_args)
        THEN [ok |-> FALSE, name |-> <<>>, payload |-> <<>>]
        ELSE [ok |-> TRUE,
              name |-> IF found = <<>> THEN DEFAULT_NAME ELSE found,
              payload |-> IF ~has_wrapper /\ has_name /\ has_args
                          THEN WRAP_OPEN \o b \o WRAP_CLOSE
                          ELSE b]

VARIABLES
    \* which specification is running: "detector", "feed" or "orch"
    mode,
    \* ToolCallState fields
    det,
    \* SpecDetector: accumulate calls since the last reset, the last return
    \* value of accumulate, whether any call returned true since the last
    \* reset, and the result of the last extract_tool_call
    calls, acc_ret, completed, ext,
    \* SpecFeed: the byte stream and the number of bytes fed so far
    feed_stream, pos,
    \* generateWithTools: position, configuration and local variables
    pc, tools_enabled, maxRounds, round, messages, cancelled,
    \* caller's sinks and the executor, as observed
    prefills, n_error, n_done, n_detected, n_exec, last_error, exec_outcome,
    parse_failed,
    \* one native generation call
    gen_i, pending, stop_requested, stream, roundText, detected, rejected_at,
    tool_span,
    \* ModelState (g_state): the fields the grammar and sampler code uses
    g_state,
    \* the sampler objects ever allocated, with the number of times each was
    \* freed; whether a freed one was ever used; the last grammar update call;
    \* what the last chain rebuild did about the grammar clone
    heap, uaf, upd, last_clone,
    \* the two mutexes of ai_gguf.cpp and the position of each caller thread
    g_init_mtx, g_generate_mtx, tpc,
    \* the resources of one nativeGenerateStream call (times acquired, times
    \* released) and the native function called last
    res, called,
    \* Utf8StreamDecoder: its pending bytes, the raw bytes of the tokens, how
    \* many of them were passed to decode, and the strings returned so far
    pending_bytes_, raw, fed, chunks,
    \* argument and result of a function applied on its own
    input, output,
    \* ToolCallManager: registeredTools and enabled, with the configuration of
    \* the last enable, its result, and the configuration the canonical
    \* grammar held now was compiled under
    manager

detBook == <<calls, acc_ret, completed, ext>>
feedVars == <<feed_stream, pos>>
orchVars == <<pc, tools_enabled, maxRounds, round, messages, cancelled, prefills,
              n_error,
              n_done, n_detected, n_exec, last_error, exec_outcome, parse_failed>>
genVars == <<gen_i, pending, stop_requested, stream, roundText, detected,
             rejected_at, tool_span>>
stateVars == <<g_state, heap, uaf, upd, last_clone>>
lockVars == <<g_init_mtx, g_generate_mtx, tpc>>
callVars == <<res, called>>
utfVars == <<pending_bytes_, raw, fed, chunks>>
funVars == <<input, output, manager>>
extraVars == <<callVars, utfVars, funVars>>
vars == <<mode, det, detBook, feedVars, orchVars, genVars, stateVars, lockVars,
          extraVars>>

NoExtract == [ok |-> FALSE, name |-> <<>>, payload |-> <<>>, done |-> FALSE]
NoToolCall == [present |-> FALSE, name |-> <<>>, payload |-> <<>>]

\* the values of the variables a specification does not use
DetBookIdle == calls = 0 /\ acc_ret = FALSE /\ completed = FALSE /\ ext = NoExtract
FeedIdle == feed_stream = <<>> /\ pos = 0
GenIdle ==
    /\ gen_i = 0 /\ pending = FALSE /\ stop_requested = FALSE
    /\ stream = <<>> /\ roundText = <<>> /\ detected = NoToolCall
    /\ rejected_at = {} /\ tool_span = <<0, 0>>
OrchIdle ==
    /\ pc = "idle" /\ tools_enabled = FALSE /\ maxRounds = 0 /\ round = 0
    /\ messages = <<>> /\ prefills = 0 /\ n_error = 0 /\ n_done = 0
    /\ n_detected = 0 /\ n_exec = 0 /\ last_error = "none"
    /\ exec_outcome = "none" /\ parse_failed = FALSE /\ cancelled = FALSE

(***************************************************************************)
(* ModelState (model_state.cpp): canonical grammar, sampler chain, cache   *)
(*                                                                         *)
(* llama.cpp is the environment: each call into it draws its outcome       *)
(* (vocabulary lookup, grammar compilation, clone).  A sampler object is   *)
(* an index into heap, which keeps for every object ever allocated what it *)
(* is and how many times it was freed; 0 stands for nullptr.  The float    *)
(* parameters are fixed-point numbers, ONE = 1.0f.  The catalog text is    *)
(* one of a few texts; "" is the empty string.                             *)
(***************************************************************************)
ONE == 10000
\* 1e-3f
TEMP_EPS == 10
NULL == 0

Catalogs == {"", "A", "B"}

\* SamplerParams with its default member initialisers
DefaultSamplerParams ==
    [topK |-> 40, topP |-> 9000, temp |-> 7000, minP |-> 500, mirostat |-> 0]

NoGrammar == <<>>

NoUpdate ==
    [path |-> "none", typed |-> FALSE, generic |-> FALSE, ok |-> {},
     attempts |-> <<>>, g |-> NoGrammar, invalidated |-> FALSE]

\* ModelState's member initialisers; the grammar configuration is a pair of
\* public fields written by the embedding code.  arch and builtin_template
\* are what llama_model_meta_val_str("general.architecture") and
\* llama_model_chat_template return for *model ("none": no value); kv is the
\* number of generated tokens held in the memory of *ctx
ModelStateInit(gmode, typed) ==
    [model |-> FALSE, ctx |-> FALSE, sampler |-> <<>>, grammar_sampler |-> NULL,
     tools_json |-> "", tools_enabled |-> FALSE,
     grammar_mode |-> gmode, use_typed_grammar |-> typed,
     cached_tools_json |-> "", grammar_needs_rebuild |-> TRUE,
     cached_sampler_params |-> DefaultSamplerParams,
     system_prompt |-> "", chat_template_override |-> "",
     arch |-> "none", builtin_template |-> FALSE, kv |-> 0]

World(s, h, u, up, cl) ==
    [s |-> s, heap |-> h, uaf |-> u, upd |-> up, last_clone |-> cl]

\* a new sampler object
Alloc(h, kind) == Append(h, [kind |-> kind, frees |-> 0])

\* llama_sampler_free of a single sampler
Free(h, x) == [h EXCEPT ![x].frees = @ + 1]

\* llama_sampler_free of a chain: frees every sampler added to the chain
FreeChain(h, chain) ==
    [x \in DOMAIN h |->
       LET n == Cardinality({k \in DOMAIN chain : chain[k].h = x})
       IN  [h[x] EXCEPT !.frees = @ + n]]

\* a call that reads the sampler object x
Uses(w, x) == w.uaf \/ (x /= NULL /\ w.heap[x].frees > 0)

\* a call that reads every sampler of a chain
UsesChain(w, chain) ==
    w.uaf \/ \E k \in DOMAIN chain : chain[k].h /= NULL /\ w.heap[chain[k].h].frees > 0

\* a chain that takes the canonical grammar itself instead of a clone
grammar_stage_shares_canonical(canonical, clone) == canonical

\* the sampler rebuild_sampler adds to the chain for the grammar
grammar_stage(canonical, clone) == clone

\* a standard branch that filters before it scales
standard_stages_filters_first(p) ==
    <<"top_k">>
    \o (IF p.topP < ONE THEN <<"top_p">> ELSE <<>>)
    \o (IF p.minP > 0 THEN <<"min_p">> ELSE <<>>)
    \o (IF p.temp > 0 /\ (IF p.temp >= ONE THEN p.temp - ONE ELSE ONE - p.temp) > TEMP_EPS
        THEN <<"temp">> ELSE <<>>)
    \o (IF p.temp > 0 THEN <<"dist">> ELSE <<"greedy">>)

\* the stages after the grammar: mirostat branch or standard branch
standard_stages(p) ==
    IF p.mirostat > 0
    THEN <<"mirostat">>
    ELSE (IF p.temp > 0 /\ (IF p.temp >= ONE THEN p.temp - ONE ELSE ONE - p.temp) > TEMP_EPS
          THEN <<"temp">> ELSE <<>>)
         \o <<"top_k">>
         \o (IF p.topP < ONE THEN <<"top_p">> ELSE <<>>)
         \o (IF p.minP > 0 THEN <<"min_p">> ELSE <<>>)
         \o (IF p.temp > 0 THEN <<"dist">> ELSE <<"greedy">>)

Stage(kind) == [kind |-> kind, h |-> NULL]
Stages(kinds) == [k \in DOMAIN kinds |-> Stage(kinds[k])]

\* ModelState::rebuild_sampler; vocab_ok and clone_ok are the results of
\* llama_model_get_vocab and llama_sampler_clone
rebuild_sampler(w, p, vocab_ok, clone_ok) ==
    LET s1 == [w.s EXCEPT !.cached_sampler_params = p, !.sampler = <<>>]
        h1 == IF w.s.sampler /= <<>> THEN FreeChain(w.heap, w.s.sampler) ELSE w.heap
        w1 == [w EXCEPT !.s = s1, !.heap = h1]
    IN  IF ~vocab_ok THEN [w1 EXCEPT !.last_clone = "none"]
        ELSE LET wants == s1.tools_enabled /\ s1.grammar_sampler /= NULL
                 cloned == wants /\ clone_ok
                 u2 == IF wants THEN Uses(w1, s1.grammar_sampler) ELSE w1.uaf
                 h2 == IF cloned
                       THEN Alloc(h1, "clone")
                       ELSE h1
                 first == IF cloned
                          THEN << [kind |-> "grammar",
                                   h |-> grammar_stage(s1.grammar_sampler, Len(h2))] >>
                          ELSE <<>>
                 chain == first \o Stages(standard_stages(p))
             IN  [w1 EXCEPT !.s.sampler = chain, !.heap = h2, !.uaf = u2,
                            !.last_clone = IF ~wants THEN "none"
                                           ELSE IF clone_ok THEN "cloned"
                                           ELSE "failed"]

\* ModelState::rebuild_sampler_cached
rebuild_sampler_cached(w, vocab_ok, clone_ok) ==
    rebuild_sampler(w, w.s.cached_sampler_params, vocab_ok, clone_ok)

\* ModelState::reset_grammar_sampler
reset_grammar_sampler(w) ==
    IF w.s.grammar_sampler /= NULL
    THEN [w EXCEPT !.uaf = Uses(w, w.s.grammar_sampler)]
    ELSE w

\* ModelState::prepare_for_generation: clears the cache, resets the chain
prepare_for_generation(w) ==
    IF ~w.s.ctx THEN w
    ELSE IF w.s.sampler /= <<>>
    THEN [w EXCEPT !.s.kv = 0, !.uaf = UsesChain(w, w.s.sampler)]
    ELSE [w EXCEPT !.s.kv = 0]

\* ModelState::is_ready
is_ready(s) == s.model /\ s.ctx /\ s.sampler /= <<>>

\* ModelState::release
release(w) ==
    LET h1 == IF w.s.grammar_sampler /= NULL
              THEN Free(w.heap, w.s.grammar_sampler) ELSE w.heap
        h2 == IF w.s.sampler /= <<>> THEN FreeChain(h1, w.s.sampler) ELSE h1
    IN  [w EXCEPT !.s.grammar_sampler = NULL, !.s.sampler = <<>>,
                  !.s.ctx = FALSE, !.s.model = FALSE,
                  !.s.arch = "none", !.s.builtin_template = FALSE, !.s.kv = 0,
                  !.heap = h2]

\* ModelState::invalidate_grammar
invalidate_grammar(w) ==
    [w EXCEPT !.s.grammar_needs_rebuild = TRUE, !.upd.invalidated = TRUE]

\* ModelState::needs_grammar_rebuild
needs_grammar_rebuild(s) ==
    s.grammar_needs_rebuild \/ s.tools_json /= s.cached_tools_json

GrammarModes == {"STRICT", "LAZY"}
\* the mode try_init_alt compiles in
Alt(m) == IF m = "LAZY" THEN "STRICT" ELSE "LAZY"
\* one call of llama_sampler_init_grammar / _lazy_patterns
Attempts == {"typed", "generic"} \X GrammarModes
\* if (!grammar_sampler && !g.empty()) grammar_sampler = try_init_..(g)
Try(acc, nonempty, att, ok) ==
    IF acc.g = NoGrammar /\ nonempty
    THEN [attempts |-> Append(acc.attempts, att),
          g |-> IF att \in ok THEN att ELSE NoGrammar]
    ELSE acc

\* an attempt order that exhausts the typed grammar before the generic one
try_attempts_typed_first(typed, generic, gmode, ok) ==
    Try(Try(Try(Try([attempts |-> <<>>, g |-> NoGrammar],
                    typed, <<"typed", gmode>>, ok),
                typed, <<"typed", Alt(gmode)>>, ok),
            generic, <<"generic", gmode>>, ok),
        generic, <<"generic", Alt(gmode)>>, ok)

\* attempts 1 to 4 of update_grammar_if_needed
try_attempts(typed, generic, gmode, ok) ==
    Try(Try(Try(Try([attempts |-> <<>>, g |-> NoGrammar],
                    typed, <<"typed", gmode>>, ok),
                generic, <<"generic", gmode>>, ok),
            typed, <<"typed", Alt(gmode)>>, ok),
        generic, <<"generic", Alt(gmode)>>, ok)

\* a reuse test that looks at the catalog text only
can_reuse_ignores_invalidate(s) == s.tools_json = s.cached_tools_json

\* if (!grammar_needs_rebuild && tools_json == cached_tools_json)
can_reuse(s) == ~s.grammar_needs_rebuild /\ s.tools_json = s.cached_tools_json

\* caching that records the catalog only when a grammar was compiled
cache_catalog_on_success(s) ==
    IF s.grammar_sampler /= NULL
    THEN [s EXCEPT !.cached_tools_json = s.tools_json,
                   !.grammar_needs_rebuild = FALSE]
    ELSE s

\* cached_tools_json = tools_json; grammar_needs_rebuild = false;
cache_catalog(s) ==
    [s EXCEPT !.cached_tools_json = s.tools_json, !.grammar_needs_rebuild = FALSE]

\* the results one update call draws from the grammar builders and llama.cpp:
\* typed / generic grammar string non-empty, vocabulary found, and the
\* attempts that would compile
\* no attempt compiles, or exactly one of them does
CompileResults == {{}} \cup {{a} : a \in Attempts}
UpdateEnvs ==
    [typed : BOOLEAN, generic : {TRUE}, vocab : {TRUE}, ok : CompileResults]
      \cup [typed : {TRUE}, generic : {FALSE}, vocab : {TRUE}, ok : CompileResults]
      \cup { [typed |-> FALSE, generic |-> FALSE, vocab |-> TRUE, ok |-> {}],
             [typed |-> TRUE, generic |-> TRUE, vocab |-> FALSE, ok |-> {}] }

\* the results an update call can draw in the state s: a call that returns
\* before it builds anything draws none
QuietEnv == [typed |-> FALSE, generic |-> FALSE, vocab |-> TRUE, ok |-> {}]
EnvsFor(s) ==
    IF s.tools_enabled /\ s.tools_json /= "" /\ needs_grammar_rebuild(s)
    THEN UpdateEnvs ELSE {QuietEnv}

\* ModelState::update_grammar_if_needed
update_grammar_if_needed(w, env) ==
    LET s == w.s IN
    IF ~s.tools_enabled \/ s.tools_json = ""
    THEN [w EXCEPT !.heap = IF s.grammar_sampler /= NULL
                            THEN Free(w.heap, s.grammar_sampler) ELSE w.heap,
                   !.s.grammar_sampler = NULL,
                   !.s.grammar_needs_rebuild = FALSE,
                   !.s.cached_tools_json = "",
                   !.upd = [NoUpdate EXCEPT !.path = "disabled"]]
    ELSE IF can_reuse(s)
    THEN [w EXCEPT !.upd = [NoUpdate EXCEPT !.path = "reuse"]]
    ELSE
    LET h1 == IF s.grammar_sampler /= NULL
              THEN Free(w.heap, s.grammar_sampler) ELSE w.heap
        s1 == [s EXCEPT !.grammar_sampler = NULL]
        typed == s.use_typed_grammar /\ env.typed
        generic == env.generic
    IN  IF ~typed /\ ~generic
        THEN [w EXCEPT !.heap = h1, !.s = cache_catalog(s1),
                       !.upd = [NoUpdate EXCEPT !.path = "no_grammar_string"]]
        ELSE IF ~env.vocab
        THEN [w EXCEPT !.heap = h1, !.s = cache_catalog(s1),
                       !.upd = [NoUpdate EXCEPT !.path = "no_vocab"]]
        ELSE LET r == try_attempts(typed, generic, s.grammar_mode, env.ok)
                 h2 == IF r.g /= NoGrammar THEN Alloc(h1, "canonical") ELSE h1
                 s2 == [s1 EXCEPT !.grammar_sampler =
                                     IF r.g /= NoGrammar THEN Len(h2) ELSE NULL]
                 cand == { a \in Attempts : IF a[1] = "typed" THEN typed ELSE generic }
             IN  [w EXCEPT !.heap = h2, !.s = cache_catalog(s2),
                           !.upd = [path |-> "compiled", typed |-> typed,
                                    generic |-> generic, ok |-> env.ok \cap cand,
                                    attempts |-> r.attempts, g |-> r.g,
                                    invalidated |-> FALSE]]

\* maybe_init_grammar
maybe_init_grammar(w, env) ==
    IF ~w.s.tools_enabled THEN w ELSE update_grammar_if_needed(w, env)

\* nativeSetToolsJson
nativeSetToolsJson(w, t, env) ==
    maybe_init_grammar([w EXCEPT !.s.tools_json = t, !.s.tools_enabled = (t /= "")],
                       env)

\* architecture names; arch_str.find("qwen") succeeds on the first two
Archs == {"qwen2", "qwen3moe", "llama", "none"}
has_qwen(arch) == arch \in {"qwen2", "qwen3moe"}

\* get_model_architecture: nullptr without a model or without the metadata
get_model_architecture(s) == IF ~s.model THEN "none" ELSE s.arch

\* nativeIsToolCallingSupported
nativeIsToolCallingSupported(s) ==
    IF ~s.model THEN FALSE
    ELSE IF get_model_architecture(s) = "none" THEN FALSE
    ELSE has_qwen(get_model_architecture(s))

\* the texts nativeEnableToolCalling installs
tool_system_prompt == "tool_system_prompt"
qwen_template == "qwen_template"

\* the return value of nativeEnableToolCalling
enable_accepts(s) ==
    /\ s.model
    /\ get_model_architecture(s) /= "none"
    /\ has_qwen(get_model_architecture(s))

\* nativeEnableToolCalling
nativeEnableToolCalling(w, t, env) ==
    IF ~enable_accepts(w.s) THEN w
    ELSE maybe_init_grammar(
             [w EXCEPT !.s.tools_json = t, !.s.tools_enabled = (t /= ""),
                       !.s.system_prompt = tool_system_prompt,
                       !.s.chat_template_override = qwen_template], env)

\* nativeDisableToolCalling
nativeDisableToolCalling(w) ==
    [w EXCEPT !.s.tools_json = "", !.s.tools_enabled = FALSE,
              !.s.system_prompt = "", !.s.chat_template_override = ""]

\* nativeSetSystemPrompt, nativeSetChatTemplate
nativeSetSystemPrompt(w, text) == [w EXCEPT !.s.system_prompt = text]
nativeSetChatTemplate(w, text) == [w EXCEPT !.s.chat_template_override = text]

\* a model file: its architecture metadata and whether it carries a template
ModelFiles == [arch : Archs, tmpl : BOOLEAN]
QwenFile == [arch |-> "qwen2", tmpl |-> TRUE]

LoadOutcomes == {"model_failed", "ctx_failed", "loaded"}

\* nativeLoadModel after g_state.release(): load, context, sampler, grammar
load_after_release(w, file, outcome, p, vocab_ok, clone_ok, env) ==
    IF outcome = "model_failed" THEN release(w)
    ELSE IF outcome = "ctx_failed" THEN release([w EXCEPT !.s.model = TRUE])
    ELSE maybe_init_grammar(
             rebuild_sampler([w EXCEPT !.s.model = TRUE, !.s.ctx = TRUE,
                                       !.s.arch = file.arch,
                                       !.s.builtin_template = file.tmpl],
                             p, vocab_ok, clone_ok),
             env)

\* nativeLoadModel
nativeLoadModel(w, file, outcome, p, vocab_ok, clone_ok, env) ==
    load_after_release(release(w), file, outcome, p, vocab_ok, clone_ok, env)

StateIdle ==
    /\ g_state = ModelStateInit("STRICT", TRUE)
    /\ heap = <<>> /\ uaf = FALSE /\ upd = NoUpdate /\ last_clone = "none"
LockIdle == g_init_mtx = 0 /\ g_generate_mtx = 0 /\ tpc = <<>>
CallIdle == res = <<>> /\ called = ""
UtfIdle == pending_bytes_ = <<>> /\ raw = <<>> /\ fed = 0 /\ chunks = <<>>
FunIdle == input = <<>> /\ output = <<>> /\ manager = <<>>
ExtraIdle == CallIdle /\ UtfIdle /\ FunIdle

Cur == World(g_state, heap, uaf, upd, last_clone)

\* the state after a call that ends in the world w2
Becomes(w2) ==
    /\ g_state' = w2.s
    /\ heap' = w2.heap
    /\ uaf' = w2.uaf
    /\ upd' = w2.upd
    /\ last_clone' = w2.last_clone

\* the model allocates at most MaxHandles sampler objects in one run
HeapRoom == Len(heap) < MaxHandles


(***************************************************************************)
(* SpecDetector: any sequence of accumulate(chunk), reset(), extract       *)
(***************************************************************************)
\* decoded pieces handed to accumulate
DetChunks ==
    { <<"{">>, <<"}">>, <<"\"">>, <<"a">>, <<"a", "{">>, <<"}", "a">>,
      <<":", "\"", "x", "\"">>, TOOL_CALLS_KEY, NAME_KEY, ARGS_KEY }

InitDetector ==
    /\ mode = "detector"
    /\ det = DetectorReset
    /\ DetBookIdle /\ FeedIdle /\ OrchIdle /\ GenIdle /\ StateIdle /\ LockIdle
    /\ ExtraIdle

DetAccumulate(chunk) ==
    /\ mode = "detector"
    /\ calls < MaxCalls
    /\ LET r == accumulate(det, chunk) IN
         /\ det' = r.st
         /\ acc_ret' = r.ret
         /\ completed' = (completed \/ r.ret)
    /\ calls' = calls + 1
    /\ ext' = NoExtract
    /\ UNCHANGED <<mode, stateVars, lockVars, extraVars, feedVars, orchVars, genVars>>

DetReset ==
    /\ mode = "detector"
    /\ det' = reset(det)
    /\ calls' = 0
    /\ acc_ret' = FALSE
    /\ completed' = FALSE
    /\ ext' = NoExtract
    /\ UNCHANGED <<mode, stateVars, lockVars, extraVars, feedVars, orchVars, genVars>>

DetExtract ==
    /\ mode = "detector"
    /\ LET r == extract_tool_call(det.buf) IN
         ext' = [ok |-> r.ok, name |-> r.name, payload |-> r.payload, done |-> TRUE]
    /\ UNCHANGED <<mode, stateVars, lockVars, extraVars, det, calls, acc_ret, completed, feedVars, orchVars, genVars>>

NextDetector ==
    \/ \E chunk \in DetChunks : DetAccumulate(chunk)
    \/ DetReset
    \/ DetExtract

SpecDetector == InitDetector /\ [][NextDetector]_vars

(***************************************************************************)
(* SpecFeed: one byte stream, fed one byte per accumulate call until       *)
(* accumulate returns true or the stream ends                              *)
(***************************************************************************)
FeedPieces ==
    { <<"{">>, <<"}">>, <<"x">>, <<" ">>,
      <<"\"", "a", "\"", ":">>, <<"\"", "}", "\"">>, <<"\"", "{", "\"">>,
      <<"\"", "\\", "\"", "\"">> }

RECURSIVE Concat(_)
Concat(ss) == IF ss = <<>> THEN <<>> ELSE Head(ss) \o Concat(Tail(ss))

InitFeed ==
    /\ mode = "feed"
    /\ det = DetectorReset
    /\ \E n \in 0..MaxStreamPieces :
         \E f \in [1..n -> FeedPieces] : feed_stream = Concat(f)
    /\ pos = 0
    /\ DetBookIdle /\ OrchIdle /\ GenIdle /\ StateIdle /\ LockIdle
    /\ ExtraIdle

FeedByte ==
    /\ mode = "feed"
    /\ ~acc_ret
    /\ pos < Len(feed_stream)
    /\ LET r == accumulate(det, <<feed_stream[pos + 1]>>) IN
         /\ det' = r.st
         /\ acc_ret' = r.ret
         /\ completed' = (completed \/ r.ret)
    /\ pos' = pos + 1
    /\ UNCHANGED <<mode, stateVars, lockVars, extraVars, calls, ext, feed_stream, orchVars, genVars>>

NextFeed == FeedByte

SpecFeed == InitFeed /\ [][NextFeed]_vars



(***************************************************************************)
(* Spec: generateWithTools (Kotlin) driving the native token loop          *)
(*                                                                         *)
(* The decoder library (sampling, llama_decode, detokenisation) and the    *)
(* caller's executor are environments: each step draws their outcome.      *)
(* Utf8StreamDecoder is seen through its results: the complete characters  *)
(* of a token and whether bytes stay pending.  Message contents are kept   *)
(* as tags; the payload of the round's tool call is in detected.           *)
(* The caller's sinks are assumed not to throw.                            *)
(***************************************************************************)
\* complete_chars of one sampled token, with the re-framer's pending state
GenPieces ==
    { <<"{">>, <<"}">>, <<"\"">>, <<"a">>, <<"a", "{">>, <<"}", "a">>,
      TOOL_CALLS_KEY, NAME_KEY, ARGS_KEY }

GenOutputs ==
    [chars : GenPieces, pend : {FALSE}]
        \cup {[chars |-> <<>>, pend |-> TRUE], [chars |-> <<"}">>, pend |-> TRUE]}

\* g_state.space_token() rendered and decoded
SpaceOutput == [chars |-> <<" ">>, pend |-> FALSE]

\* U+FFFD, the result of Utf8StreamDecoder::flush with bytes pending
REPLACEMENT == "U+FFFD"

\* loop bound that admits one round too many
HasNextRound_inclusive(r, n) == r <= n

\* for (round in 0 until config.maxRounds)
HasNextRound(r, n) == r < n

\* the tool message built from the executor's outcome
ToolMessage(outcome) ==
    [role |-> "tool",
     content |-> CASE outcome = "ok" -> "result"
                   [] outcome = "is_error" -> "error_result"
                   [] outcome = "throws" -> "Error: exception"]

\* a catch that swallows the exception without recording a tool message
AfterExecute_drops_throw(msgs, outcome) ==
    IF outcome = "throws" THEN msgs ELSE Append(msgs, ToolMessage(outcome))

\* try { executor.execute } catch { ToolResult(.., "Error: ..") }; messages.add(tool)
AfterExecute(msgs, outcome) == Append(msgs, ToolMessage(outcome))

InitOrch ==
    /\ mode = "orch"
    /\ det = DetectorReset
    /\ DetBookIdle /\ FeedIdle /\ GenIdle /\ StateIdle /\ LockIdle
    /\ ExtraIdle
    /\ pc = "idle"
    /\ tools_enabled \in BOOLEAN
    /\ maxRounds \in 0..MaxRounds
    /\ round = 0 /\ messages = <<>> /\ prefills = 0
    /\ n_error = 0 /\ n_done = 0 /\ n_detected = 0 /\ n_exec = 0
    /\ last_error = "none" /\ exec_outcome = "none" /\ parse_failed = FALSE
    /\ cancelled = FALSE

\* a round loop that falls out of generateWithTools without a signal when the
\* budget is used up
LoopHead_silent(r) ==
    /\ round' = r
    /\ IF HasNextRound(r, maxRounds)
       THEN /\ pc' = "prefill"
            /\ prefills' = prefills + 1
            /\ det' = DetectorReset
            /\ gen_i' = 0 /\ pending' = FALSE /\ stop_requested' = FALSE
            /\ stream' = <<>> /\ roundText' = <<>> /\ detected' = NoToolCall
            /\ rejected_at' = {} /\ tool_span' = <<0, 0>>
            /\ UNCHANGED <<n_error, last_error>>
       ELSE /\ pc' = "finished"
            /\ UNCHANGED <<n_error, last_error, prefills, det, genVars>>

\* head of the round loop for round r: start the native call of round r, or
\* leave the loop and report the exhausted budget
LoopHead(r) ==
    /\ round' = r
    /\ IF HasNextRound(r, maxRounds)
       THEN /\ pc' = "prefill"
            /\ prefills' = prefills + 1
            /\ det' = DetectorReset
            /\ gen_i' = 0 /\ pending' = FALSE /\ stop_requested' = FALSE
            /\ stream' = <<>> /\ roundText' = <<>> /\ detected' = NoToolCall
            /\ rejected_at' = {} /\ tool_span' = <<0, 0>>
            /\ UNCHANGED <<n_error, last_error>>
       ELSE /\ pc' = "finished"
            /\ n_error' = n_error + 1
            /\ last_error' = "max_rounds"
            /\ UNCHANGED <<prefills, det, genVars>>

\* generateWithTools up to the first native call
Start ==
    /\ mode = "orch" /\ pc = "idle"
    /\ IF ~tools_enabled
       THEN /\ pc' = "finished"
            /\ n_error' = n_error + 1
            /\ last_error' = "not_enabled"
            /\ UNCHANGED <<messages, round, prefills, det, genVars>>
       ELSE /\ messages' = << [role |-> "system", content |-> "system_prompt"],
                              [role |-> "user", content |-> "user_message"] >>
            /\ LoopHead(0)
    /\ UNCHANGED <<mode, stateVars, lockVars, extraVars, detBook, feedVars, tools_enabled, cancelled, maxRounds, n_done,
                   n_detected, n_exec, exec_outcome, parse_failed>>

\* a round epilogue that executes the call although its payload did not parse
AfterNative_ignores_parse(err, tc) ==
    IF err /= "none"
    THEN /\ pc' = "finished"
         /\ n_error' = n_error + 1
         /\ last_error' = err
         /\ UNCHANGED <<messages, n_done, n_detected, parse_failed>>
    ELSE IF tc.present
    THEN \E parsed \in BOOLEAN :
           /\ pc' = "executing"
           /\ parse_failed' = ~parsed
           /\ n_detected' = n_detected + 1
           /\ messages' = Append(messages,
                                 [role |-> "assistant", content |-> "payload"])
           /\ UNCHANGED <<n_error, last_error, n_done>>
    ELSE /\ pc' = "finished"
         /\ n_done' = n_done + 1
         /\ UNCHANGED <<messages, n_error, last_error, n_detected, parse_failed>>

\* what generateWithTools does once the native call has returned, up to the
\* executor call or the end of the conversation
AfterNative(err, tc) ==
    IF err /= "none"
    THEN /\ pc' = "finished"
         /\ n_error' = n_error + 1
         /\ last_error' = err
         /\ UNCHANGED <<messages, n_done, n_detected, parse_failed>>
    ELSE IF tc.present
    THEN \E parsed \in BOOLEAN :
           IF ~parsed
           THEN /\ pc' = "finished"
                /\ n_error' = n_error + 1
                /\ last_error' = "parse_failure"
                /\ parse_failed' = TRUE
                /\ UNCHANGED <<messages, n_done, n_detected>>
           ELSE /\ pc' = "executing"
                /\ n_detected' = n_detected + 1
                /\ messages' = Append(messages,
                                      [role |-> "assistant", content |-> "payload"])
                /\ UNCHANGED <<n_error, last_error, n_done, parse_failed>>
    ELSE /\ pc' = "finished"
         /\ n_done' = n_done + 1
         /\ UNCHANGED <<messages, n_error, last_error, n_detected, parse_failed>>

\* the characters of one chunk entering the round's decoded stream
Marks(chars, from, to, sent) ==
    [k \in 1..Len(chars) |->
        [c |-> chars[k], chunk |-> gen_i,
         collected |-> (k >= from /\ k <= to), delivered |-> sent]]

\* leaving the token loop: flush the re-framer, return to generateWithTools
NativeExit(st2, pend2, stream2, text2, err, tc, rej2, span2) ==
    /\ det' = st2
    /\ pending' = FALSE
    /\ stream' = IF pend2
                 THEN Append(stream2, [c |-> REPLACEMENT, chunk |-> gen_i,
                                       collected |-> FALSE, delivered |-> TRUE])
                 ELSE stream2
    /\ roundText' = IF pend2 THEN Append(text2, REPLACEMENT) ELSE text2
    /\ detected' = tc
    /\ rejected_at' = rej2
    /\ tool_span' = span2
    /\ AfterNative(err, tc)
    /\ UNCHANGED <<mode, stateVars, lockVars, extraVars, detBook, feedVars, gen_i, stop_requested, tools_enabled, cancelled,
                   maxRounds, round, prefills, n_exec, exec_outcome>>

\* inside an iteration of the token loop, its condition already evaluated
Generating == mode = "orch" /\ pc = "body"

\* prompt tokenised and decoded
PrefillOk ==
    /\ mode = "orch" /\ pc = "prefill"
    /\ pc' = "gen"
    /\ UNCHANGED <<mode, stateVars, lockVars, extraVars, det, detBook, feedVars, genVars, tools_enabled, cancelled, maxRounds,
                   round, messages, prefills, n_error, n_done, n_detected, n_exec,
                   last_error, exec_outcome, parse_failed>>

\* tokenisation, context check or prompt decode failed: error, early return
PrefillFail ==
    /\ mode = "orch" /\ pc = "prefill"
    /\ AfterNative("prefill_failed", NoToolCall)
    /\ UNCHANGED <<mode, stateVars, lockVars, extraVars, det, detBook, feedVars, genVars, tools_enabled, cancelled, maxRounds,
                   round, prefills, n_exec, exec_outcome>>

\* nativeStopGeneration from another thread
StopGeneration ==
    /\ mode = "orch" /\ pc \in {"prefill", "gen", "body", "fwd"}
    /\ ~stop_requested
    /\ stop_requested' = TRUE
    /\ UNCHANGED <<mode, stateVars, lockVars, extraVars, det, detBook, feedVars, orchVars, gen_i, pending, stream,
                   roundText, detected, rejected_at, tool_span>>

\* loop condition true: i < to_generate and no stop requested
LoopCheck ==
    /\ mode = "orch" /\ pc = "gen"
    /\ gen_i < MaxTokens /\ ~stop_requested
    /\ pc' = "body"
    /\ UNCHANGED <<mode, stateVars, lockVars, extraVars, det, detBook, feedVars, genVars, tools_enabled, cancelled,
                   maxRounds, round, messages, prefills, n_error, n_done,
                   n_detected, n_exec, last_error, exec_outcome, parse_failed>>

\* the orchestrator's coroutine is cancelled while executor.execute runs;
\* generateWithTools never reads the job's state between rounds
CancelTask ==
    /\ mode = "orch" /\ pc = "executing"
    /\ ~cancelled
    /\ cancelled' = TRUE
    /\ UNCHANGED <<mode, stateVars, lockVars, extraVars, det, detBook, feedVars, genVars, pc, tools_enabled,
                   maxRounds, round, messages, prefills, n_error, n_done,
                   n_detected, n_exec, last_error, exec_outcome, parse_failed>>

\* loop condition false: budget of tokens used up, or stop requested
LoopExit ==
    /\ mode = "orch" /\ pc = "gen"
    /\ gen_i >= MaxTokens \/ stop_requested
    /\ NativeExit(det, pending, stream, roundText, "none", NoToolCall,
                  rejected_at, tool_span)

\* llama_sampler_sample returned an invalid token
SampleFail ==
    /\ Generating
    /\ NativeExit(det, pending, stream, roundText, "sampling_failed", NoToolCall,
                  rejected_at, tool_span)

\* lines 491-518: one decoded chunk through the detector and the token sink
ProcessChunk(o) ==
    IF o.chars = <<>>
    THEN /\ pc' = "fwd"
         /\ pending' = o.pend
         /\ UNCHANGED <<mode, stateVars, lockVars, extraVars, det, detBook, feedVars, gen_i, stop_requested,
                        stream, roundText, detected, rejected_at, tool_span,
                        tools_enabled, cancelled, maxRounds, round, messages, prefills,
                        n_error, n_done, n_detected, n_exec, last_error,
                        exec_outcome, parse_failed>>
    ELSE LET r == IF tools_enabled THEN accumulate(det, o.chars)
                  ELSE [st |-> det, ret |-> FALSE, used |-> 0]
             ex == extract_tool_call(r.st.buf)
             braces == { k \in 1..Len(o.chars) : o.chars[k] = "{" }
             from == IF ~tools_enabled THEN Len(o.chars) + 1
                     ELSE IF det.collecting THEN 1
                     ELSE IF braces = {} THEN Len(o.chars) + 1
                     ELSE CHOOSE k \in braces : \A j \in braces : k <= j
             base == Len(stream)
         IN  IF r.ret /\ ex.ok
             THEN \* send_toolcall; break
                  NativeExit(r.st, o.pend,
                             stream \o Marks(o.chars, from, r.used, FALSE),
                             roundText, "none",
                             [present |-> TRUE, name |-> ex.name, payload |-> ex.payload],
                             rejected_at,
                             <<base + r.used - Len(r.st.buf) + 1, base + r.used>>)
             ELSE LET st2 == IF r.ret THEN reset(r.st) ELSE r.st
                      sent == ~is_collecting(st2)
                  IN  /\ det' = st2
                      /\ pending' = o.pend
                      /\ stream' = stream \o Marks(o.chars, from, r.used, sent)
                      /\ roundText' = IF sent THEN roundText \o o.chars ELSE roundText
                      /\ rejected_at' = IF r.ret THEN rejected_at \cup {gen_i}
                                        ELSE rejected_at
                      /\ pc' = "fwd"
                      /\ UNCHANGED <<mode, stateVars, lockVars, extraVars, detBook, feedVars, gen_i, stop_requested,
                                     detected, tool_span, tools_enabled, cancelled, maxRounds,
                                     round, messages, prefills, n_error, n_done,
                                     n_detected, n_exec, last_error, exec_outcome,
                                     parse_failed>>

\* a token other than end-of-sequence was sampled
SampleToken(o) ==
    /\ Generating
    /\ ProcessChunk(o)

\* end-of-sequence sampled: the first token is replaced by a space, any
\* later one ends the loop
SampleEos ==
    /\ Generating
    /\ IF gen_i = 0
       THEN ProcessChunk(SpaceOutput)
       ELSE NativeExit(det, pending, stream, roundText, "none", NoToolCall,
                       rejected_at, tool_span)

\* llama_decode of the sampled token succeeded
Forward ==
    /\ mode = "orch" /\ pc = "fwd"
    /\ pc' = "gen"
    /\ gen_i' = gen_i + 1
    /\ UNCHANGED <<mode, stateVars, lockVars, extraVars, det, detBook, feedVars, pending, stop_requested, stream,
                   roundText, detected, rejected_at, tool_span, tools_enabled, cancelled,
                   maxRounds, round, messages, prefills, n_error, n_done,
                   n_detected, n_exec, last_error, exec_outcome, parse_failed>>

\* llama_decode failed: error, break
ForwardFail ==
    /\ mode = "orch" /\ pc = "fwd"
    /\ NativeExit(det, pending, stream, roundText, "decode_failed", NoToolCall,
                  rejected_at, tool_span)

ExecOutcomes == {"ok", "is_error", "throws"}

\* an executor step whose catch block reports the exception and gives up
ExecutorReturns_aborts_on_throw(outcome) ==
    /\ mode = "orch" /\ pc = "executing"
    /\ n_exec' = n_exec + 1
    /\ exec_outcome' = outcome
    /\ IF outcome = "throws"
       THEN /\ pc' = "finished"
            /\ n_error' = n_error + 1
            /\ last_error' = "executor_failed"
            /\ UNCHANGED <<messages, round, prefills, det, genVars>>
       ELSE /\ messages' = AfterExecute(messages, outcome)
            /\ LoopHead(round + 1)
    /\ UNCHANGED <<mode, stateVars, lockVars, extraVars, detBook, feedVars, tools_enabled, cancelled, maxRounds, n_done,
                   n_detected, parse_failed>>

\* an executor step that starts the next round before the tool message is
\* appended
ExecutorReturns_skips_tool_message(outcome) ==
    /\ mode = "orch" /\ pc = "executing"
    /\ messages' = messages
    /\ n_exec' = n_exec + 1
    /\ exec_outcome' = outcome
    /\ LoopHead(round + 1)
    /\ UNCHANGED <<mode, stateVars, lockVars, extraVars, detBook, feedVars, tools_enabled, cancelled, maxRounds,
                   n_done, n_detected, parse_failed>>

\* executor.execute returned or threw; tool message; next round or exhaustion
ExecutorReturns(outcome) ==
    /\ mode = "orch" /\ pc = "executing"
    /\ messages' = AfterExecute(messages, outcome)
    /\ n_exec' = n_exec + 1
    /\ exec_outcome' = outcome
    /\ LoopHead(round + 1)
    /\ UNCHANGED <<mode, stateVars, lockVars, extraVars, detBook, feedVars, tools_enabled, cancelled, maxRounds, n_done,
                   n_detected, parse_failed>>

Next ==
    \/ Start
    \/ PrefillOk
    \/ PrefillFail
    \/ StopGeneration
    \/ CancelTask
    \/ LoopCheck
    \/ LoopExit
    \/ SampleFail
    \/ \E o \in GenOutputs : SampleToken(o)
    \/ SampleEos
    \/ Forward
    \/ ForwardFail
    \/ \E outcome \in ExecOutcomes : ExecutorReturns(outcome)

Spec == InitOrch /\ [][Next]_vars

(***************************************************************************)
(* SpecGrammar: any sequence of the calls that touch the canonical grammar *)
(* and the sampler chain, made by one thread                               *)
(***************************************************************************)
\* sampler parameters of the calls: the defaults and a mirostat record
CallParams == {DefaultSamplerParams, [DefaultSamplerParams EXCEPT !.mirostat = 2]}

InitGrammar ==
    /\ mode = "grammar"
    /\ det = DetectorReset
    /\ DetBookIdle /\ FeedIdle /\ OrchIdle /\ GenIdle /\ LockIdle
    /\ ExtraIdle
    /\ \E gmode \in GrammarModes, typed \in BOOLEAN :
         g_state = ModelStateInit(gmode, typed)
    /\ heap = <<>> /\ uaf = FALSE /\ upd = NoUpdate /\ last_clone = "none"

Others == <<mode, det, detBook, feedVars, orchVars, genVars, lockVars, extraVars>>

SetToolsJson(t, env) ==
    /\ mode = "grammar" /\ HeapRoom
    /\ env \in EnvsFor([g_state EXCEPT !.tools_json = t, !.tools_enabled = (t /= "")])
    /\ Becomes(nativeSetToolsJson(Cur, t, env))
    /\ UNCHANGED Others

DisableToolCalling ==
    /\ mode = "grammar"
    /\ Becomes(nativeDisableToolCalling(Cur))
    /\ UNCHANGED Others

UpdateGrammar(env) ==
    /\ mode = "grammar" /\ HeapRoom
    /\ env \in EnvsFor(g_state)
    /\ Becomes(update_grammar_if_needed(Cur, env))
    /\ UNCHANGED Others

InvalidateGrammar ==
    /\ mode = "grammar"
    /\ Becomes(invalidate_grammar(Cur))
    /\ UNCHANGED Others

RebuildSampler(p, vocab_ok, clone_ok) ==
    /\ mode \in {"grammar", "sampler"} /\ HeapRoom
    /\ Becomes(rebuild_sampler(Cur, p, vocab_ok, clone_ok))
    /\ UNCHANGED Others

RebuildSamplerCached(vocab_ok, clone_ok) ==
    /\ mode = "grammar" /\ HeapRoom
    /\ Becomes(rebuild_sampler_cached(Cur, vocab_ok, clone_ok))
    /\ UNCHANGED Others

ResetGrammarSampler ==
    /\ mode = "grammar"
    /\ Becomes(reset_grammar_sampler(Cur))
    /\ UNCHANGED Others

PrepareForGeneration ==
    /\ mode = "grammar"
    /\ Becomes(prepare_for_generation(Cur))
    /\ UNCHANGED Others

LoadModel(vocab_ok, env) ==
    /\ mode = "grammar" /\ HeapRoom
    /\ env \in EnvsFor(g_state)
    /\ Becomes(nativeLoadModel(Cur, QwenFile, "loaded", DefaultSamplerParams, vocab_ok,
                               TRUE, env))
    /\ UNCHANGED Others

\* nativeLoadModel when the model or its context cannot be created
LoadModelFails(outcome) ==
    /\ mode = "grammar" /\ outcome /= "loaded"
    /\ Becomes(nativeLoadModel(Cur, QwenFile, outcome, DefaultSamplerParams, TRUE, TRUE,
                               QuietEnv))
    /\ UNCHANGED Others

Release ==
    /\ mode = "grammar"
    /\ Becomes(release(Cur))
    /\ UNCHANGED Others

NextGrammar ==
    \/ \E t \in Catalogs, env \in UpdateEnvs : SetToolsJson(t, env)
    \/ DisableToolCalling
    \/ \E env \in UpdateEnvs : UpdateGrammar(env)
    \/ InvalidateGrammar
    \/ \E p \in CallParams, vocab_ok \in BOOLEAN, clone_ok \in BOOLEAN :
         RebuildSampler(p, vocab_ok, clone_ok)
    \/ \E vocab_ok \in BOOLEAN, clone_ok \in BOOLEAN :
         RebuildSamplerCached(vocab_ok, clone_ok)
    \/ ResetGrammarSampler
    \/ PrepareForGeneration
    \/ \E vocab_ok \in BOOLEAN, env \in UpdateEnvs : LoadModel(vocab_ok, env)
    \/ \E outcome \in LoadOutcomes : LoadModelFails(outcome)
    \/ Release

SpecGrammar == InitGrammar /\ [][NextGrammar]_vars

(***************************************************************************)
(* SpecSampler: rebuild_sampler over a grid of parameter records, on a     *)
(* loaded model whose tool state and canonical grammar are fixed           *)
(***************************************************************************)
\* values on both sides of every comparison rebuild_sampler makes, none of
\* them on a threshold
ParamGrid ==
    [topK : {40}, topP : {9000, ONE, 11000},
     temp : {-5000, 0, 7000, ONE, ONE + 5, ONE + 20},
     minP : {0, 500}, mirostat : {-1, 0, 2}]

InitSampler ==
    /\ mode = "sampler"
    /\ det = DetectorReset
    /\ DetBookIdle /\ FeedIdle /\ OrchIdle /\ GenIdle /\ LockIdle
    /\ ExtraIdle
    /\ \E te \in BOOLEAN, hg \in BOOLEAN :
         /\ g_state = [ModelStateInit("STRICT", TRUE) EXCEPT
                          !.model = TRUE, !.ctx = TRUE,
                          !.arch = "qwen2", !.builtin_template = TRUE,
                          !.tools_enabled = te,
                          !.tools_json = IF te THEN "A" ELSE "",
                          !.grammar_sampler = IF hg THEN 1 ELSE NULL,
                          !.cached_tools_json = IF te \/ hg THEN "A" ELSE "",
                          !.grammar_needs_rebuild = FALSE]
         /\ heap = IF hg THEN Alloc(<<>>, "canonical") ELSE <<>>
    /\ uaf = FALSE /\ upd = NoUpdate /\ last_clone = "none"

NextSampler ==
    \E p \in ParamGrid, vocab_ok \in BOOLEAN, clone_ok \in BOOLEAN :
        RebuildSampler(p, vocab_ok, clone_ok)

SpecSampler == InitSampler /\ [][NextSampler]_vars

(***************************************************************************)
(* SpecTools: the JNI calls that load a model file and write the tool      *)
(* state, the system prompt and the chat-template override                 *)
(***************************************************************************)
\* texts the embedding code passes to nativeSetSystemPrompt and
\* nativeSetChatTemplate
UserTexts == {"", "user_text"}

InitTools ==
    /\ mode = "tools"
    /\ det = DetectorReset
    /\ DetBookIdle /\ FeedIdle /\ OrchIdle /\ GenIdle /\ StateIdle /\ LockIdle
    /\ ExtraIdle

ToolOthers ==
    <<mode, det, detBook, feedVars, orchVars, genVars, lockVars, res, utfVars,
      funVars>>

LoadModelFile(file, env) ==
    /\ mode = "tools" /\ HeapRoom
    /\ env \in EnvsFor(g_state)
    /\ Becomes(nativeLoadModel(Cur, file, "loaded", DefaultSamplerParams, TRUE,
                               TRUE, env))
    /\ called' = "nativeLoadModel"
    /\ UNCHANGED ToolOthers

ReleaseModel ==
    /\ mode = "tools"
    /\ Becomes(release(Cur))
    /\ called' = "nativeRelease"
    /\ UNCHANGED ToolOthers

SetSystemPrompt(text) ==
    /\ mode = "tools"
    /\ Becomes(nativeSetSystemPrompt(Cur, text))
    /\ called' = "nativeSetSystemPrompt"
    /\ UNCHANGED ToolOthers

SetChatTemplate(text) ==
    /\ mode = "tools"
    /\ Becomes(nativeSetChatTemplate(Cur, text))
    /\ called' = "nativeSetChatTemplate"
    /\ UNCHANGED ToolOthers

EnableToolCalling(t, env) ==
    /\ mode = "tools" /\ HeapRoom
    /\ env \in EnvsFor([g_state EXCEPT !.tools_json = t, !.tools_enabled = (t /= "")])
    /\ Becomes(nativeEnableToolCalling(Cur, t, env))
    /\ called' = "nativeEnableToolCalling"
    /\ UNCHANGED ToolOthers

DisableToolCallingCall ==
    /\ mode = "tools"
    /\ Becomes(nativeDisableToolCalling(Cur))
    /\ called' = "nativeDisableToolCalling"
    /\ UNCHANGED ToolOthers

NextTools ==
    \/ \E file \in ModelFiles, env \in UpdateEnvs : LoadModelFile(file, env)
    \/ ReleaseModel
    \/ \E text \in UserTexts : SetSystemPrompt(text)
    \/ \E text \in UserTexts : SetChatTemplate(text)
    \/ \E t \in {"", "A"}, env \in UpdateEnvs : EnableToolCalling(t, env)
    \/ DisableToolCallingCall

SpecTools == InitTools /\ [][NextTools]_vars

(***************************************************************************)
(* SpecLock: threads calling nativeLoadModel, nativeRelease and            *)
(* nativeGenerateStream on the process-wide g_state                        *)
(***************************************************************************)
Threads == 1..MaxThreads

\* positions of a thread inside nativeGenerateStream
InGeneration == {"gen_wait", "generating"}

\* a thread's position and the tokens its generation call has sampled
At(where) == [at |-> where, n |-> 0]

InitLock ==
    /\ mode = "lock"
    /\ det = DetectorReset
    /\ DetBookIdle /\ FeedIdle /\ OrchIdle /\ GenIdle /\ StateIdle
    /\ g_init_mtx = 0 /\ g_generate_mtx = 0
    /\ tpc = [t \in Threads |-> At("idle")]
    /\ ExtraIdle

LockOthers == <<mode, det, detBook, feedVars, orchVars, genVars, extraVars>>

\* nativeGenerateStream up to its lock_guard: is_ready and
\* prepare_for_generation run before g_generate_mtx is taken
GenerateCall(t) ==
    /\ mode = "lock" /\ tpc[t].at = "idle"
    /\ IF ~is_ready(g_state)
       THEN UNCHANGED <<stateVars, tpc>>
       ELSE /\ Becomes(prepare_for_generation(Cur))
            /\ tpc' = [tpc EXCEPT ![t] = At("gen_wait")]
    /\ UNCHANGED <<g_init_mtx, g_generate_mtx>>
    /\ UNCHANGED LockOthers

\* std::lock_guard<std::mutex> lock(g_generate_mtx)
GenerateLock(t) ==
    /\ mode = "lock" /\ tpc[t].at = "gen_wait"
    /\ g_generate_mtx = 0
    /\ g_generate_mtx' = t
    /\ tpc' = [tpc EXCEPT ![t] = At("generating")]
    /\ UNCHANGED <<stateVars, g_init_mtx>>
    /\ UNCHANGED LockOthers

\* one iteration of the token loop: llama_sampler_sample and llama_decode
\* read g_state.sampler, g_state.ctx and the model
GenerateStep(t) ==
    /\ mode = "lock" /\ tpc[t].at = "generating"
    /\ tpc[t].n < MaxTokens
    /\ tpc' = [tpc EXCEPT ![t].n = @ + 1]
    /\ uaf' = (uaf \/ ~g_state.model \/ ~g_state.ctx \/ g_state.sampler = <<>>
                   \/ UsesChain(Cur, g_state.sampler))
    /\ g_state' = [g_state EXCEPT !.kv = IF g_state.ctx THEN @ + 1 ELSE @]
    /\ UNCHANGED <<heap, upd, last_clone, g_init_mtx, g_generate_mtx>>
    /\ UNCHANGED LockOthers

\* return of nativeGenerateStream: the lock_guard releases g_generate_mtx
GenerateReturn(t) ==
    /\ mode = "lock" /\ tpc[t].at = "generating"
    /\ g_generate_mtx' = 0
    /\ tpc' = [tpc EXCEPT ![t] = At("idle")]
    /\ UNCHANGED <<stateVars, g_init_mtx>>
    /\ UNCHANGED LockOthers

\* nativeLoadModel: lock_guard on g_init_mtx, then g_state.release()
LoadBegin(t) ==
    /\ mode = "lock" /\ tpc[t].at = "idle" /\ HeapRoom
    /\ g_init_mtx = 0
    /\ g_init_mtx' = t
    /\ Becomes(release(Cur))
    /\ tpc' = [tpc EXCEPT ![t] = At("loading")]
    /\ UNCHANGED g_generate_mtx
    /\ UNCHANGED LockOthers

\* nativeLoadModel: model, context, sampler chain, grammar, return
LoadFinish(t, outcome, p, vocab_ok, env) ==
    /\ mode = "lock" /\ tpc[t].at = "loading"
    /\ env \in (IF outcome = "loaded" THEN EnvsFor(g_state) ELSE {QuietEnv})
    /\ Becomes(load_after_release(Cur, QwenFile, outcome, p, vocab_ok, TRUE, env))
    /\ g_init_mtx' = 0
    /\ tpc' = [tpc EXCEPT ![t] = At("idle")]
    /\ UNCHANGED g_generate_mtx
    /\ UNCHANGED LockOthers

\* nativeRelease: lock_guard on g_init_mtx around g_state.release()
ReleaseCall(t) ==
    /\ mode = "lock" /\ tpc[t].at = "idle"
    /\ g_init_mtx = 0
    /\ Becomes(release(Cur))
    /\ UNCHANGED lockVars
    /\ UNCHANGED LockOthers

\* nativeSetToolsJson: writes g_state and updates the canonical grammar
\* without taking a mutex
SetToolsCall(t, text, env) ==
    /\ mode = "lock" /\ tpc[t].at = "idle" /\ HeapRoom
    /\ env \in EnvsFor([g_state EXCEPT !.tools_json = text,
                                       !.tools_enabled = (text /= "")])
    /\ Becomes(nativeSetToolsJson(Cur, text, env))
    /\ UNCHANGED lockVars
    /\ UNCHANGED LockOthers

NextLock ==
    \E t \in Threads :
        \/ \E text \in Catalogs, env \in UpdateEnvs : SetToolsCall(t, text, env)
        \/ GenerateCall(t)
        \/ GenerateLock(t)
        \/ GenerateStep(t)
        \/ GenerateReturn(t)
        \/ LoadBegin(t)
        \/ \E outcome \in LoadOutcomes, p \in CallParams, vocab_ok \in BOOLEAN,
              env \in UpdateEnvs :
               LoadFinish(t, outcome, p, vocab_ok, env)
        \/ ReleaseCall(t)

SpecLock == InitLock /\ [][NextLock]_vars


(***************************************************************************)
(* SpecCall: one call of nativeGenerateStream, statement by statement,     *)
(* with the resources it acquires and releases                             *)
(***************************************************************************)
\* the lock_guard on g_generate_mtx, the batch of decode_prompt, the
\* single-token batch, the ToolCallState and the Utf8StreamDecoder locals
CallResources ==
    {"generate_mtx", "prompt_batch", "single_batch", "tool_state", "utf8_decoder"}

NoResources == [x \in CallResources |-> [acq |-> 0, rel |-> 0]]

Acquire(r, x) == [r EXCEPT !.cnt[x].acq = @ + 1]
Dispose(r, x) == [r EXCEPT !.cnt[x].rel = @ + 1]

\* decode_prompt forgets its batch when llama_decode fails
free_on_decode_failure_missing(r) == r
\* decode_prompt: llama_batch_free(batch) before return false
free_on_decode_failure(r) == Dispose(r, "prompt_batch")

\* a return statement: the destructors of the locals constructed so far and
\* of the lock_guard run
return_from(r, reason, locals) ==
    LET r1 == IF locals
              THEN Dispose(Dispose(r, "tool_state"), "utf8_decoder") ELSE r
    IN  [Dispose(r1, "generate_mtx") EXCEPT !.exit = reason]

\* send_error / jni::on_error: the callback's onError is called
send_error(r) == [r EXCEPT !.on_error = @ + 1]

\* send_done: the callback's onDone is called
send_done(r) == [r EXCEPT !.on_done = @ + 1]

\* the breaks of the loop body that follow a call of jni::on_error
ErrorBreaks == {"context_size_exceeded", "sampling_failed", "decode_failed"}

\* chunks of batch_size tokens the prompt is decoded in
PromptChunks == 1..2

SetupFailures == {"no_vocab", "tokenization_failed", "context_overflow"}
LoopBreaks ==
    {"context_size_exceeded", "sampling_failed", "end_of_turn", "decode_failed",
     "callback_exception"}

\* stop strings, each one symbol of the decoded stream
IM_END == "<|im_end|>"
IM_START == "<|im_start|>"
EOT_ID == "<|eot_id|>"
START_HEADER_ID == "<|start_header_id|>"
FallbackStops == {"\nUser:", "\nHuman:", "\n### User", "\n<|user|>"}

\* the template detect_stop_strings looks at and the marker found in it:
\* the override if set, else the built-in template of the model
template_family(s) ==
    IF s.chat_template_override = qwen_template THEN "chatml"
    ELSE IF s.chat_template_override /= "" THEN "unknown"
    ELSE IF ~s.builtin_template THEN "none"
    ELSE IF has_qwen(s.arch) THEN "chatml"
    ELSE IF s.arch = "llama" THEN "llama3"
    ELSE "unknown"

\* the pair of stop strings pushed for the first marker found in the template
template_stops(family) ==
    CASE family = "gemma" -> {"<end_of_turn>", "<start_of_turn>"}
      [] family = "chatml" -> {IM_END, IM_START}
      [] family = "llama3" -> {EOT_ID, START_HEADER_ID}
      [] family = "phi" -> {"<|end|>", "<|user|>"}
      [] family = "mistral" -> {"</s>", "[INST]"}
      [] family = "command-r" -> {"<|END_OF_TURN_TOKEN|>", "<|START_OF_TURN_TOKEN|>"}
      [] OTHER -> {}

\* ModelState::detect_stop_strings: the list it leaves in stop_strings
detect_stop_strings(s) ==
    IF ~s.model THEN {}
    ELSE template_stops(template_family(s)) \cup FallbackStops

\* decoded pieces of the tokens of SpecCall
CallPieces ==
    { <<"a">>, <<"{">>, <<"}">>, TOOL_CALLS_KEY, <<"\nUser:">>, <<IM_END>> }

InitCall ==
    /\ mode = "call"
    /\ det = DetectorReset
    /\ DetBookIdle /\ FeedIdle /\ OrchIdle /\ GenIdle
    /\ UtfIdle /\ FunIdle /\ called = ""
    /\ \E ready \in BOOLEAN, te \in BOOLEAN :
         g_state = [ModelStateInit("STRICT", TRUE) EXCEPT
                       !.model = ready, !.ctx = ready,
                       !.sampler = IF ready
                                   THEN Stages(standard_stages(DefaultSamplerParams))
                                   ELSE <<>>,
                       !.arch = IF ready THEN "qwen2" ELSE "none",
                       !.builtin_template = ready,
                       !.tools_enabled = te,
                       !.tools_json = IF te THEN "A" ELSE ""]
    /\ heap = <<>> /\ uaf = FALSE /\ upd = NoUpdate /\ last_clone = "none"
    /\ g_init_mtx = 0 /\ g_generate_mtx = 0
    /\ tpc = <<At("idle")>>
    /\ res = [cnt |-> NoResources, exit |-> "none", left |-> 0,
              on_error |-> 0, on_done |-> 0]

CallOthers ==
    <<mode, detBook, feedVars, orchVars, gen_i, pending, stop_requested, stream,
      detected, rejected_at, tool_span, g_init_mtx, called, pending_bytes_, raw,
      fed, funVars>>

\* the detector, the strings decode returned, and the text sent to on_token
CallText == <<det, chunks, roundText>>

\* is_ready, prepare_for_generation, lock_guard
CallEnter ==
    /\ mode = "call" /\ tpc[1].at = "idle" /\ res.exit = "none"
    /\ IF ~is_ready(g_state)
       THEN /\ res' = send_error([res EXCEPT !.exit = "not_ready"])
            /\ tpc' = <<At("returned")>>
            /\ UNCHANGED <<stateVars, g_generate_mtx>>
       ELSE /\ Becomes(prepare_for_generation(Cur))
            /\ g_generate_mtx' = 1
            /\ res' = Acquire(res, "generate_mtx")
            /\ tpc' = <<At("locked")>>
    /\ UNCHANGED CallOthers /\ UNCHANGED CallText

\* the returns before the prompt is decoded
SetupFails(reason) ==
    /\ mode = "call" /\ tpc[1].at = "locked"
    /\ res' = send_error(return_from(res, reason, FALSE))
    /\ g_generate_mtx' = 0
    /\ tpc' = <<At("returned")>>
    /\ UNCHANGED stateVars
    /\ UNCHANGED CallOthers /\ UNCHANGED CallText

\* decode_prompt: llama_batch_init
PrefillBegin(n) ==
    /\ mode = "call" /\ tpc[1].at = "locked"
    /\ res' = [Acquire(res, "prompt_batch") EXCEPT !.left = n]
    /\ tpc' = <<At("prefill")>>
    /\ UNCHANGED <<stateVars, g_generate_mtx>>
    /\ UNCHANGED CallOthers /\ UNCHANGED CallText

\* decode_prompt: one llama_decode that succeeds
PrefillChunk ==
    /\ mode = "call" /\ tpc[1].at = "prefill" /\ res.left > 0
    /\ res' = [res EXCEPT !.left = @ - 1]
    /\ UNCHANGED <<stateVars, lockVars>>
    /\ UNCHANGED CallOthers /\ UNCHANGED CallText

\* decode_prompt: llama_decode fails; "Decoding prompt failed", return
PrefillFails ==
    /\ mode = "call" /\ tpc[1].at = "prefill" /\ res.left > 0
    /\ res' = send_error(return_from(free_on_decode_failure(res),
                                     "prefill_failed", FALSE))
    /\ g_generate_mtx' = 0
    /\ tpc' = <<At("returned")>>
    /\ UNCHANGED stateVars
    /\ UNCHANGED CallOthers /\ UNCHANGED CallText

\* decode_prompt: llama_batch_free(batch), return true
PrefillEnd ==
    /\ mode = "call" /\ tpc[1].at = "prefill" /\ res.left = 0
    /\ res' = Dispose(res, "prompt_batch")
    /\ tpc' = <<At("prefilled")>>
    /\ UNCHANGED <<stateVars, g_generate_mtx>>
    /\ UNCHANGED CallOthers /\ UNCHANGED CallText

\* llama_get_logits returns null
NoLogits ==
    /\ mode = "call" /\ tpc[1].at = "prefilled"
    /\ res' = send_error(return_from(res, "no_logits", FALSE))
    /\ g_generate_mtx' = 0
    /\ tpc' = <<At("returned")>>
    /\ UNCHANGED stateVars
    /\ UNCHANGED CallOthers /\ UNCHANGED CallText

\* ToolCallState tool_state; Utf8StreamDecoder utf8_decoder;
\* llama_batch_init(1, 0, 1)
LoopBegin ==
    /\ mode = "call" /\ tpc[1].at = "prefilled"
    /\ res' = Acquire(Acquire(Acquire(res, "tool_state"), "utf8_decoder"),
                      "single_batch")
    /\ tpc' = <<At("loop")>>
    /\ UNCHANGED <<stateVars, g_generate_mtx>>
    /\ UNCHANGED CallOthers /\ UNCHANGED CallText

\* one iteration with a token that is not end-of-turn: decode, detector,
\* send_toolcall and break, or send_token_immediate and llama_decode
LoopToken(piece) ==
    /\ mode = "call" /\ tpc[1].at = "loop" /\ tpc[1].n < MaxTokens
    /\ LET r == IF g_state.tools_enabled THEN accumulate(det, piece)
                ELSE [st |-> det, ret |-> FALSE, used |-> 0]
           ex == extract_tool_call(r.st.buf)
       IN  /\ chunks' = Append(chunks, piece)
           /\ IF r.ret /\ ex.ok
              THEN /\ det' = r.st
                   /\ res' = [res EXCEPT !.exit = "tool_call"]
                   /\ tpc' = [tpc EXCEPT ![1].at = "cleanup"]
                   /\ UNCHANGED <<roundText, g_state>>
              ELSE LET st2 == IF r.ret THEN reset(r.st) ELSE r.st
                   IN  /\ det' = st2
                       /\ roundText' = IF ~is_collecting(st2)
                                       THEN roundText \o piece ELSE roundText
                       /\ tpc' = [tpc EXCEPT ![1].n = @ + 1]
                       /\ g_state' = [g_state EXCEPT !.kv = @ + 1]
                       /\ UNCHANGED res
    /\ UNCHANGED <<heap, uaf, upd, last_clone, g_generate_mtx>>
    /\ UNCHANGED CallOthers

\* the loop condition fails: to_generate tokens were made
LoopEnd ==
    /\ mode = "call" /\ tpc[1].at = "loop" /\ tpc[1].n = MaxTokens
    /\ res' = [res EXCEPT !.exit = "normal_end"]
    /\ tpc' = [tpc EXCEPT ![1].at = "cleanup"]
    /\ UNCHANGED <<stateVars, g_generate_mtx>>
    /\ UNCHANGED CallOthers /\ UNCHANGED CallText

\* the loop condition fails: g_stop_requested was set by another thread
LoopStopped ==
    /\ mode = "call" /\ tpc[1].at = "loop"
    /\ res' = [res EXCEPT !.exit = "stop_requested"]
    /\ tpc' = [tpc EXCEPT ![1].at = "cleanup"]
    /\ UNCHANGED <<stateVars, g_generate_mtx>>
    /\ UNCHANGED CallOthers /\ UNCHANGED CallText

\* the break statements of the loop body
LoopBreak(reason) ==
    /\ mode = "call" /\ tpc[1].at = "loop" /\ tpc[1].n < MaxTokens
    /\ res' = IF reason \in ErrorBreaks
              THEN send_error([res EXCEPT !.exit = reason])
              ELSE [res EXCEPT !.exit = reason]
    /\ tpc' = [tpc EXCEPT ![1].at = "cleanup"]
    /\ UNCHANGED <<stateVars, g_generate_mtx>>
    /\ UNCHANGED CallOthers /\ UNCHANGED CallText

\* after the loop: flush, llama_batch_free(single), callbacks, return
Cleanup ==
    /\ mode = "call" /\ tpc[1].at = "cleanup"
    /\ res' = LET r == return_from(Dispose(res, "single_batch"), res.exit, TRUE)
              IN  \* if (!has_exception) { send_metrics; send_done }
                  IF res.exit /= "callback_exception" THEN send_done(r) ELSE r
    /\ g_generate_mtx' = 0
    /\ tpc' = [tpc EXCEPT ![1].at = "returned"]
    /\ UNCHANGED stateVars
    /\ UNCHANGED CallOthers /\ UNCHANGED CallText

NextCall ==
    \/ CallEnter
    \/ \E reason \in SetupFailures : SetupFails(reason)
    \/ \E n \in PromptChunks : PrefillBegin(n)
    \/ PrefillChunk
    \/ PrefillFails
    \/ PrefillEnd
    \/ NoLogits
    \/ LoopBegin
    \/ \E piece \in CallPieces : LoopToken(piece)
    \/ LoopEnd
    \/ LoopStopped
    \/ \E reason \in LoopBreaks : LoopBreak(reason)
    \/ Cleanup

SpecCall == InitCall /\ [][NextCall]_vars


(***************************************************************************)
(* Utf8StreamDecoder.  Bytes are the integers 0..255.                      *)
(***************************************************************************)
\* a lead byte of three is taken for a lead byte of two
utf8_char_length_two_for_three(c) ==
    IF c < 128 THEN 1
    ELSE IF c >= 192 /\ c < 240 THEN 2
    ELSE IF c >= 240 /\ c < 248 THEN 4
    ELSE 0
\* Utf8StreamDecoder::utf8_char_length: the masks 0x80, 0xE0, 0xF0, 0xF8
utf8_char_length(c) ==
    IF c < 128 THEN 1
    ELSE IF c >= 192 /\ c < 224 THEN 2
    ELSE IF c >= 224 /\ c < 240 THEN 3
    ELSE IF c >= 240 /\ c < 248 THEN 4
    ELSE 0

\* (cont & 0xC0) == 0x80
is_continuation(c) == c >= 128 /\ c < 192

\* the while loop of decode over input from index i (0-based)
RECURSIVE decode_loop(_, _, _)
decode_loop(in, i, complete) ==
    IF ~(i < Len(in)) THEN [complete |-> complete, pending |-> <<>>]
    ELSE
    LET char_len == utf8_char_length(in[i + 1])
    IN  IF char_len = 0 THEN decode_loop(in, i + 1, complete)
        ELSE IF i + char_len > Len(in)
        THEN [complete |-> complete, pending |-> SubSeq(in, i + 1, Len(in))]
        ELSE IF \A j \in 1..(char_len - 1) : is_continuation(in[i + j + 1])
        THEN decode_loop(in, i + char_len,
                         complete \o SubSeq(in, i + 1, i + char_len))
        ELSE decode_loop(in, i + 1, complete)

\* Utf8StreamDecoder::decode: the string returned and the new pending_bytes_
decode(pend, raw_bytes) ==
    IF raw_bytes = <<>> THEN [complete |-> <<>>, pending |-> pend]
    ELSE decode_loop(pend \o raw_bytes, 0, <<>>)

\* U+FFFD, "\xEF\xBF\xBD"
U_FFFD == <<239, 191, 189>>

\* flush hands out the pending bytes themselves
flush_keeps_bytes(pend) == pend
\* Utf8StreamDecoder::flush: the string returned (pending_bytes_ is cleared)
flush(pend) == IF pend /= <<>> THEN U_FFFD ELSE <<>>

(***************************************************************************)
(* SpecUtf8: a byte stream passed to decode in chunks of any sizes, then   *)
(* flush                                                                   *)
(***************************************************************************)
\* an ASCII byte, a continuation byte, lead bytes of 2, 3 and 4, and a byte
\* that starts nothing
StreamBytes == {65, 128, 195, 226, 240, 255}

RECURSIVE ByteStrings(_)
ByteStrings(n) ==
    IF n = 0 THEN {<<>>}
    ELSE ByteStrings(n - 1)
           \cup { Append(s, b) : s \in { x \in ByteStrings(n - 1) : Len(x) = n - 1 },
                                 b \in StreamBytes }

InitUtf8 ==
    /\ mode = "utf8"
    /\ det = DetectorReset
    /\ DetBookIdle /\ FeedIdle /\ OrchIdle /\ GenIdle /\ StateIdle /\ LockIdle
    /\ FunIdle /\ res = <<>> /\ called = ""
    /\ raw \in ByteStrings(MaxBytes)
    /\ fed = 0 /\ pending_bytes_ = <<>> /\ chunks = <<>>

UtfOthers ==
    <<mode, det, detBook, feedVars, orchVars, genVars, stateVars, lockVars, res,
      funVars, raw>>

\* decode(raw_piece) for a token whose bytes are the next k bytes
DecodePiece(k) ==
    /\ mode = "utf8" /\ called /= "flush"
    /\ k >= 1 /\ fed + k <= Len(raw)
    /\ LET d == decode(pending_bytes_, SubSeq(raw, fed + 1, fed + k))
       IN  /\ chunks' = Append(chunks, d.complete)
           /\ pending_bytes_' = d.pending
    /\ fed' = fed + k
    /\ called' = "decode"
    /\ UNCHANGED UtfOthers

\* flush() after the last token
Flush ==
    /\ mode = "utf8" /\ called /= "flush" /\ fed = Len(raw)
    /\ chunks' = Append(chunks, flush(pending_bytes_))
    /\ pending_bytes_' = <<>>
    /\ called' = "flush"
    /\ UNCHANGED fed
    /\ UNCHANGED UtfOthers

NextUtf8 ==
    \/ \E k \in 1..MaxBytes : DecodePiece(k)
    \/ Flush

SpecUtf8 == InitUtf8 /\ [][NextUtf8]_vars


(***************************************************************************)
(* chat::normalize_tools_json.  A catalog text is a sequence of lexical    *)
(* pieces: the punctuation characters, a blank, and whole quoted strings   *)
(* (so a quote never occurs inside a piece).                               *)
(***************************************************************************)
FUNCTION_KEY == "\"function\""
TYPE_KEY == "\"type\""
NAME_STR == "\"name\""
PROPS_STR == "\"properties\""
VALUE_STR == "\"f\""

\* skip_ws
RECURSIVE skip_ws(_, _)
skip_ws(s, at) ==
    IF at < Len(s) /\ s[at + 1] = " " THEN skip_ws(s, at + 1) ELSE at

\* find_matching_close: index of the bracket that closes the one at at
RECURSIVE matching_close_loop(_, _, _, _, _)
matching_close_loop(s, at, open_ch, close_ch, depth) ==
    IF ~(at < Len(s) /\ depth > 0)
    THEN (IF depth = 0 THEN at - 1 ELSE NPOS)
    ELSE LET c == s[at + 1]
             d1 == IF c = open_ch THEN depth + 1 ELSE depth
             d2 == IF c = close_ch THEN d1 - 1 ELSE d1
         IN  matching_close_loop(s, at + 1, open_ch, close_ch, d2)

find_matching_close(s, at) ==
    IF at >= Len(s) THEN NPOS
    ELSE LET open_ch == s[at + 1]
             close_ch == IF open_ch = "{" THEN "}" ELSE "]"
         IN  matching_close_loop(s, at + 1, open_ch, close_ch, 1)

\* find_key_value(s, key, start): index of the value of the next key of
\* that name at or after start; key is the quoted piece
RECURSIVE find_key_value(_, _, _)
find_key_value(s, key, start) ==
    LET p == find(s, <<key>>, start)
    IN  IF p = NPOS THEN NPOS
        ELSE LET after == skip_ws(s, p + 1)
             IN  IF after < Len(s) /\ s[after + 1] = ":"
                 THEN skip_ws(s, after + 1)
                 ELSE find_key_value(s, key, p + 1)

\* the text the quick check of normalize_tools_json looks for
DOUBLE_NESTING == <<FUNCTION_KEY, ":", "{", TYPE_KEY, ":", FUNCTION_KEY>>

\* the while loop of normalize_tools_json
RECURSIVE normalize_loop(_, _, _)
normalize_loop(s, at, result) ==
    IF ~(at < Len(s)) THEN result
    ELSE
    LET func_val == find_key_value(s, FUNCTION_KEY, at)
    IN  IF func_val = NPOS THEN result \o substr(s, at, Len(s) - at)
        ELSE
        LET r1 == result \o substr(s, at, func_val - at)
        IN  IF func_val >= Len(s) THEN r1
            ELSE IF s[func_val + 1] /= "{"
            THEN normalize_loop(s, func_val + 1, Append(r1, s[func_val + 1]))
            ELSE
            LET outer_end == find_matching_close(s, func_val)
            IN  IF outer_end = NPOS
                THEN r1 \o substr(s, func_val, Len(s) - func_val)
                ELSE
                LET inner_val == find_key_value(s, FUNCTION_KEY, func_val + 1)
                    inner_end == IF inner_val /= NPOS /\ inner_val < Len(s)
                                 THEN find_matching_close(s, inner_val)
                                 ELSE NPOS
                IN  IF /\ inner_val /= NPOS /\ inner_val < outer_end
                       /\ inner_val < Len(s) /\ s[inner_val + 1] = "{"
                       /\ inner_end /= NPOS /\ inner_end <= outer_end
                    THEN normalize_loop(s, outer_end + 1,
                             r1 \o substr(s, inner_val, inner_end - inner_val + 1))
                    ELSE normalize_loop(s, outer_end + 1,
                             r1 \o substr(s, func_val, outer_end - func_val + 1))

\* chat::normalize_tools_json
normalize_tools_json(tools_json) ==
    IF find(tools_json, DOUBLE_NESTING, 0) = NPOS THEN tools_json
    ELSE normalize_loop(tools_json, 0, <<>>)

(***************************************************************************)
(* SpecNormalise: normalize_tools_json applied once and once more to the   *)
(* catalogs callers produce                                                *)
(***************************************************************************)
\* a function object; with_prop: one of its parameters is named "function"
FunctionObject(with_prop) ==
    IF with_prop
    THEN <<"{", NAME_STR, ":", VALUE_STR, ",", PROPS_STR, ":", "{",
           FUNCTION_KEY, ":", "{", TYPE_KEY, ":", VALUE_STR, "}", "}", "}">>
    ELSE <<"{", NAME_STR, ":", VALUE_STR, "}">>

\* a function object inside n {"type":"function","function":...} wrappers,
\* blank: the writer puts a blank after the colon of the "function" key
RECURSIVE Wrapped(_, _, _)
Wrapped(n, blank, with_prop) ==
    IF n = 0 THEN FunctionObject(with_prop)
    ELSE <<"{", TYPE_KEY, ":", FUNCTION_KEY, ",", FUNCTION_KEY, ":">>
           \o (IF blank THEN <<" ">> ELSE <<>>)
           \o Wrapped(n - 1, blank, with_prop) \o <<"}">>

ToolTexts ==
    { Wrapped(n, blank, with_prop) :
        n \in 1..MaxWrap, blank \in BOOLEAN, with_prop \in BOOLEAN }

\* catalogs of one or two tools, and the empty text
CatalogTexts ==
    {<<>>} \cup { <<"[">> \o t \o <<"]">> : t \in ToolTexts }
       \cup { <<"[">> \o t1 \o <<",">> \o t2 \o <<"]">> :
                t1 \in ToolTexts, t2 \in ToolTexts }

InitNormalise ==
    /\ mode = "normalise"
    /\ det = DetectorReset
    /\ DetBookIdle /\ FeedIdle /\ OrchIdle /\ GenIdle /\ StateIdle /\ LockIdle
    /\ CallIdle /\ UtfIdle
    /\ input \in CatalogTexts
    /\ output = <<>> /\ manager = <<>>

\* output[k] is normalize_tools_json applied k times to input
Normalise ==
    /\ mode = "normalise" /\ Len(output) < 2
    /\ output' = Append(output,
                        normalize_tools_json(IF output = <<>> THEN input
                                             ELSE output[Len(output)]))
    /\ UNCHANGED <<mode, det, detBook, feedVars, orchVars, genVars, stateVars,
                   lockVars, callVars, utfVars, input, manager>>

NextNormalise == Normalise

SpecNormalise == InitNormalise /\ [][NextNormalise]_vars


(***************************************************************************)
(* chat::extract_tool_info over the same lexical pieces.  A ToolInfo is    *)
(* the name piece, the parameters in order of appearance (name and type    *)
(* pieces) and the pieces of the required array; the catalogs carry no     *)
(* enum.                                                                   *)
(***************************************************************************)
PARAMETERS_KEY == "\"parameters\""
REQUIRED_KEY == "\"required\""
OBJECT_STR == "\"object\""
EMPTY_STR == "\"\""
Punctuation == {"{", "}", "[", "]", ":", ",", " "}

\* s[at] == '"': the piece at index at is a quoted string
quote_at(s, at) == at < Len(s) /\ s[at + 1] \notin Punctuation

\* the quoted strings of an array body (required, enum)
RECURSIVE quoted_items(_, _, _)
quoted_items(s, rp0, acc) ==
    LET rp == skip_ws(s, rp0)
    IN  IF rp >= Len(s) THEN acc
        ELSE IF quote_at(s, rp)
        THEN quoted_items(s, rp + 1, Append(acc, s[rp + 1]))
        ELSE quoted_items(s, rp + 1, acc)

\* the loop over the body of "properties"
RECURSIVE properties_loop(_, _, _)
properties_loop(s, pp0, acc) ==
    LET pp == skip_ws(s, pp0)
    IN  IF pp >= Len(s) THEN acc
        ELSE IF ~quote_at(s, pp) THEN properties_loop(s, pp + 1, acc)
        ELSE IF s[pp + 1] = EMPTY_STR THEN acc
        ELSE
        LET colon == skip_ws(s, pp + 1)
        IN  IF colon >= Len(s) \/ s[colon + 1] /= ":" THEN acc
            ELSE
            LET val == skip_ws(s, colon + 1)
            IN  IF val >= Len(s) \/ s[val + 1] /= "{" THEN acc
                ELSE
                LET prop_obj_end == find_matching_close(s, val)
                IN  IF prop_obj_end = NPOS THEN acc
                    ELSE
                    LET prop_obj == substr(s, val, prop_obj_end - val + 1)
                        type_val == find_key_value(prop_obj, TYPE_KEY, 0)
                        param == [name |-> s[pp + 1],
                                  type |-> IF type_val /= NPOS
                                              /\ quote_at(prop_obj, type_val)
                                           THEN prop_obj[type_val + 1]
                                           ELSE EMPTY_STR]
                        next == skip_ws(s, prop_obj_end + 1)
                    IN  properties_loop(s,
                            IF next < Len(s) /\ s[next + 1] = "," THEN next + 1
                            ELSE next,
                            Append(acc, param))

\* the body of the value of key in obj when it opens with open_ch, else <<>>
body_of(obj, key, open_ch) ==
    LET val == find_key_value(obj, key, 0)
        end == IF val /= NPOS /\ val < Len(obj) /\ obj[val + 1] = open_ch
               THEN find_matching_close(obj, val) ELSE NPOS
    IN  IF end = NPOS THEN <<>> ELSE substr(obj, val + 1, end - val - 1)

\* the value of key in obj with its brackets, <<>> when it is no object
object_of(obj, key) ==
    LET val == find_key_value(obj, key, 0)
        end == IF val /= NPOS /\ val < Len(obj) /\ obj[val + 1] = "{"
               THEN find_matching_close(obj, val) ELSE NPOS
    IN  IF end = NPOS THEN <<>> ELSE substr(obj, val, end - val + 1)

\* the ToolInfo read from one function object
tool_info(func_obj) ==
    LET name_val == find_key_value(func_obj, NAME_STR, 0)
        params_obj == object_of(func_obj, PARAMETERS_KEY)
    IN  [name |-> IF name_val /= NPOS /\ quote_at(func_obj, name_val)
                  THEN func_obj[name_val + 1] ELSE EMPTY_STR,
         params |-> properties_loop(body_of(params_obj, PROPS_STR, "{"), 0, <<>>),
         required |-> quoted_items(body_of(params_obj, REQUIRED_KEY, "["), 0, <<>>)]

\* pos = func_end + 1
resume_inside(func_val, func_end) == func_val + 1
resume_after(func_val, func_end) == func_end + 1

\* the while loop of extract_tool_info
RECURSIVE extract_loop(_, _, _)
extract_loop(s, at, tools) ==
    LET func_val == find_key_value(s, FUNCTION_KEY, at)
    IN  IF func_val = NPOS THEN tools
        ELSE IF func_val >= Len(s) \/ s[func_val + 1] /= "{"
        THEN extract_loop(s, func_val + 1, tools)
        ELSE
        LET func_end == find_matching_close(s, func_val)
        IN  IF func_end = NPOS THEN tools
            ELSE
            LET info == tool_info(substr(s, func_val, func_end - func_val + 1))
            IN  extract_loop(s, resume_after(func_val, func_end),
                             IF info.name /= EMPTY_STR THEN Append(tools, info)
                             ELSE tools)

extract_tool_info(tools_json) == extract_loop(tools_json, 0, <<>>)

(***************************************************************************)
(* SpecExtract: extract_tool_info applied to a catalog written with one    *)
(* and with two wrappers around every function object                      *)
(***************************************************************************)
\* declared parameters: name piece and type piece
DeclParams ==
    { [name |-> "\"a\"", type |-> "\"string\""],
      [name |-> "\"b\"", type |-> "\"boolean\""],
      [name |-> FUNCTION_KEY, type |-> "\"number\""] }

DeclParamLists ==
    {<<>>} \cup { <<x>> : x \in DeclParams }
       \cup { pr \in { <<x, y>> : x \in DeclParams, y \in DeclParams } :
                pr[1] /= pr[2] }

\* the subsequences of a list of at most two names
Sublists(l) ==
    {<<>>} \cup { <<l[k]>> : k \in DOMAIN l } \cup (IF Len(l) = 2 THEN {l} ELSE {})

Names(params) == [k \in DOMAIN params |-> params[k].name]

DeclTools(name) ==
    UNION { { [name |-> name, params |-> ps, required |-> r] :
                r \in Sublists(Names(ps)) } : ps \in DeclParamLists }

DeclCatalogs ==
    { <<t>> : t \in DeclTools(VALUE_STR) }
       \cup { <<t1, t2>> : t1 \in DeclTools(VALUE_STR), t2 \in DeclTools("\"g\"") }

\* pieces joined by commas
RECURSIVE joined(_)
joined(parts) ==
    IF parts = <<>> THEN <<>>
    ELSE IF Len(parts) = 1 THEN parts[1]
    ELSE parts[1] \o <<",">> \o joined(Tail(parts))

\* ToolDefinition.toOpenAIFormat: the function object of a declared tool
FunctionText(tool) ==
    <<"{", NAME_STR, ":", tool.name, ",", PARAMETERS_KEY, ":", "{",
      TYPE_KEY, ":", OBJECT_STR, ",", PROPS_STR, ":", "{">>
      \o joined([k \in DOMAIN tool.params |->
                   <<tool.params[k].name, ":", "{", TYPE_KEY, ":",
                     tool.params[k].type, "}">>])
      \o <<"}", ",", REQUIRED_KEY, ":", "[">>
      \o joined([k \in DOMAIN tool.required |-> <<tool.required[k]>>])
      \o <<"]", "}", "}">>

\* obj inside n {"type":"function","function":...} wrappers
RECURSIVE WrappedObject(_, _, _)
WrappedObject(n, blank, obj) ==
    IF n = 0 THEN obj
    ELSE <<"{", TYPE_KEY, ":", FUNCTION_KEY, ",", FUNCTION_KEY, ":">>
           \o (IF blank THEN <<" ">> ELSE <<>>)
           \o WrappedObject(n - 1, blank, obj) \o <<"}">>

\* the catalog text of the declared tools, each inside n wrappers
CatalogText(decl, n, blank) ==
    <<"[">> \o joined([k \in DOMAIN decl |->
                         WrappedObject(n, blank, FunctionText(decl[k]))])
            \o <<"]">>

NoParse == [single |-> <<>>, double |-> <<>>, normalised |-> <<>>]

InitExtract ==
    /\ mode = "extract"
    /\ det = DetectorReset
    /\ DetBookIdle /\ FeedIdle /\ OrchIdle /\ GenIdle /\ StateIdle /\ LockIdle
    /\ CallIdle /\ UtfIdle
    /\ \E decl \in DeclCatalogs, blank \in BOOLEAN :
          input = [decl |-> decl, blank |-> blank, parsed |-> FALSE]
    /\ output = NoParse /\ manager = <<>>

\* build_tool_grammar_typed's first statement, on the singly wrapped text,
\* on the doubly wrapped text, and on the doubly wrapped text normalised
ExtractToolInfo ==
    /\ mode = "extract" /\ ~input.parsed
    /\ input' = [input EXCEPT !.parsed = TRUE]
    /\ output' =
         [single |-> extract_tool_info(CatalogText(input.decl, 1, input.blank)),
          double |-> extract_tool_info(CatalogText(input.decl, 2, input.blank)),
          normalised |-> extract_tool_info(
              normalize_tools_json(CatalogText(input.decl, 2, input.blank)))]
    /\ UNCHANGED <<mode, det, detBook, feedVars, orchVars, genVars, stateVars,
                   lockVars, callVars, utfVars, manager>>

NextExtract == ExtractToolInfo

SpecExtract == InitExtract /\ [][NextExtract]_vars


(***************************************************************************)
(* chat::build_tool_grammar_typed, the args_ rule of one tool.  A tool is   *)
(* the ToolInfo extract_tool_info produced: params in declaration order     *)
(* and the names of the required array.  The rule is the sequence of GBNF   *)
(* items written to the stream; ws is left out, a parameter name stands for *)
(* the reference to its kv_ rule.                                           *)
(***************************************************************************)
MaxParams == 3

ParamPool == <<"a", "b", "c", "d", "e">>
ParamNames == { ParamPool[k] : k \in 1..MaxParams }

\* std::find(tool.required.begin(), tool.required.end(), param.name)
is_req_never(tool, name) == FALSE
is_req(tool, name) == name \in tool.required

req_params(tool) == SelectSeq(tool.params, LAMBDA name : is_req(tool, name))
opt_params(tool) == SelectSeq(tool.params, LAMBDA name : ~is_req(tool, name))

\* required params, comma-separated
RECURSIVE required_items(_, _)
required_items(req, i) ==
    IF i > Len(req) THEN <<>>
    ELSE (IF i > 1 THEN <<",", req[i]>> ELSE <<req[i]>>)
           \o required_items(req, i + 1)

\* (ws "," ws kv_opt_i for i from `from` on, each group left open
RECURSIVE optional_opens(_, _)
optional_opens(opt, from) ==
    IF from > Len(opt) THEN <<>>
    ELSE <<"(", ",", opt[from]>> \o optional_opens(opt, from + 1)

\* n times ")?"
RECURSIVE close_optionals(_)
close_optionals(n) == IF n <= 0 THEN <<>> ELSE <<")?">> \o close_optionals(n - 1)

args_rule(tool) ==
    LET req == req_params(tool)
        opt == opt_params(tool)
    IN  IF req = <<>> /\ opt = <<>> THEN <<"{", "}">>
        ELSE <<"{">>
               \o required_items(req, 1)
               \o (IF opt = <<>> THEN <<>>
                   ELSE IF req = <<>>
                   THEN <<"(", opt[1]>> \o optional_opens(opt, 2)
                          \o close_optionals(Len(opt) - 1) \o <<")?">>
                   ELSE optional_opens(opt, 1) \o close_optionals(Len(opt)))
               \o <<"}">>

\* the strings a rule accepts: an item is matched as it stands, a group
\* ( ... )? is matched or skipped
RECURSIVE rule_language(_, _)
rule_language(rule, i) ==
    IF i > Len(rule) \/ rule[i] = ")?" THEN [set |-> {<<>>}, next |-> i]
    ELSE IF rule[i] = "("
    THEN LET inner == rule_language(rule, i + 1)
             rest == rule_language(rule, inner.next + 1)
         IN  [set |-> { x \o y : x \in inner.set \cup {<<>>}, y \in rest.set },
              next |-> rest.next]
    ELSE LET rest == rule_language(rule, i + 1)
         IN  [set |-> { <<rule[i]>> \o y : y \in rest.set }, next |-> rest.next]

accepted(rule) == rule_language(rule, 1).set

\* parameter lists without a repeated name
ParamLists ==
    { ps \in UNION { [1..n -> ParamNames] : n \in 0..MaxParams } :
        \A i, j \in DOMAIN ps : ps[i] = ps[j] => i = j }

\* the required array may name a property that is not declared
ToolInfos ==
    [params : ParamLists, required : SUBSET (ParamNames \cup {"undeclared"})]

InitTyped ==
    /\ mode = "typed"
    /\ det = DetectorReset
    /\ DetBookIdle /\ FeedIdle /\ OrchIdle /\ GenIdle /\ StateIdle /\ LockIdle
    /\ CallIdle /\ UtfIdle
    /\ \E tool \in ToolInfos : input = <<tool>>
    /\ output = <<>> /\ manager = <<>>

\* the per-tool loop of build_tool_grammar_typed
BuildTyped ==
    /\ mode = "typed" /\ Len(output) < Len(input)
    /\ output' = Append(output, args_rule(input[Len(output) + 1]))
    /\ UNCHANGED <<mode, det, detBook, feedVars, orchVars, genVars, stateVars,
                   lockVars, callVars, utfVars, input, manager>>

NextTyped == BuildTyped

SpecTyped == InitTyped /\ [][NextTyped]_vars

(***************************************************************************)
(* chat::build_tool_grammar_typed, the names of the rules it defines.  A   *)
(* name is the sequence of its characters, and a tool is its name with the *)
(* names of its parameters.                                                *)
(***************************************************************************)
\* characters of a tool or parameter name
MaxNameLen == 3

NameChars == {"a", "_"}

\* names that begin and end with a letter
RuleIdents ==
    UNION { { w \in [1..n -> NameChars] : w[1] = "a" /\ w[n] = "a" } :
              n \in 1..MaxNameLen }

\* "call_" << tool.name
call_rule_name(tool) == <<"c", "a", "l", "l", "_">> \o tool.name

\* "args_" << tool.name
args_rule_name(tool) == <<"a", "r", "g", "s", "_">> \o tool.name

\* "kv_" << tool.name << "_" << param.name
kv_rule_name(tool, param) == <<"k", "v", "_">> \o tool.name \o <<"_">> \o param

\* the left-hand sides written by the per-tool loop, in order
RECURSIVE defined_rules(_)
defined_rules(tools) ==
    IF tools = <<>> THEN <<>>
    ELSE LET tool == Head(tools)
         IN  <<call_rule_name(tool), args_rule_name(tool)>>
               \o [k \in DOMAIN tool.params |-> kv_rule_name(tool, tool.params[k])]
               \o defined_rules(Tail(tools))

InitNames ==
    /\ mode = "names"
    /\ det = DetectorReset
    /\ DetBookIdle /\ FeedIdle /\ OrchIdle /\ GenIdle /\ StateIdle /\ LockIdle
    /\ CallIdle /\ UtfIdle
    /\ \E n1 \in RuleIdents, n2 \in RuleIdents, p1 \in RuleIdents, p2 \in RuleIdents :
          input = [tools |-> <<[name |-> n1, params |-> <<p1>>],
                               [name |-> n2, params |-> <<p2>>]>>,
                   built |-> FALSE]
    /\ output = <<>> /\ manager = <<>>

\* build_tool_grammar_typed on the extracted tools
BuildRuleNames ==
    /\ mode = "names" /\ ~input.built
    /\ input' = [input EXCEPT !.built = TRUE]
    /\ output' = defined_rules(input.tools)
    /\ UNCHANGED <<mode, det, detBook, feedVars, orchVars, genVars, stateVars,
                   lockVars, callVars, utfVars, manager>>

NextNames == BuildRuleNames

SpecNames == InitNames /\ [][NextNames]_vars



(***************************************************************************)
(* SpecManager: ToolCallManager (Kotlin) over the native tool state.       *)
(* nativeSetGrammarMode and nativeSetTypedGrammar are the setters of       *)
(* g_state.grammar_mode and g_state.use_typed_grammar.                     *)
(***************************************************************************)
ToolNames == {"t1", "t2"}

\* ToolCallingConfig, and its default values
Configs == [mode : GrammarModes, typed : BOOLEAN]
DefaultConfig == [mode |-> "STRICT", typed |-> TRUE]
NoConfig == [mode |-> "none", typed |-> FALSE]

\* buildToolsJson: the text of the registered tools in registration order
buildToolsJson(tools) ==
    IF tools = <<>> THEN "[]"
    ELSE IF tools = <<"t1">> THEN "A"
    ELSE IF tools = <<"t2">> THEN "B"
    ELSE IF tools = <<"t1", "t2">> THEN "AB"
    ELSE "BA"

nativeSetGrammarMode(w, m) == [w EXCEPT !.s.grammar_mode = m]
nativeSetTypedGrammar(w, b) == [w EXCEPT !.s.use_typed_grammar = b]

\* isEnabled
isEnabled(m, s) == m.enabled /\ s.tools_enabled

\* the configuration the canonical grammar of w2 was compiled under, when w2
\* follows w by one call
built_under(prev, w, w2) ==
    IF w2.s.grammar_sampler = NULL THEN NoConfig
    ELSE IF w2.s.grammar_sampler /= w.s.grammar_sampler
    THEN [mode |-> w2.s.grammar_mode, typed |-> w2.s.use_typed_grammar]
    ELSE prev

\* unregisterTool: enable() is called without arguments
enable_again(m) == DefaultConfig

\* enable(config): [m, w] after the call
enable(m, w, config, env) ==
    IF ~nativeIsToolCallingSupported(w.s) \/ m.registeredTools = <<>>
    THEN [m |-> [m EXCEPT !.ok = FALSE], w |-> w]
    ELSE LET w1 == nativeSetSystemPrompt(
                       nativeSetTypedGrammar(
                           nativeSetGrammarMode(w, config.mode), config.typed),
                       "minimal_system_prompt")
             w2 == nativeEnableToolCalling(w1, buildToolsJson(m.registeredTools),
                                           env)
         IN  IF ~enable_accepts(w1.s)
             THEN [m |-> [m EXCEPT !.ok = FALSE], w |-> w2]
             ELSE [m |-> [m EXCEPT !.enabled = TRUE, !.ok = TRUE,
                                   !.config = config,
                                   !.built = built_under(m.built, w, w2)],
                   w |-> w2]

\* disable()
disable(m, w) ==
    [m |-> [m EXCEPT !.enabled = FALSE, !.ok = TRUE,
                     !.built = built_under(m.built, w, nativeDisableToolCalling(w))],
     w |-> nativeDisableToolCalling(w)]

\* unregisterTool(name)
unregisterTool(m, w, name, env) ==
    LET removed == \E k \in DOMAIN m.registeredTools : m.registeredTools[k] = name
        m1 == [m EXCEPT !.registeredTools =
                           SelectSeq(m.registeredTools, LAMBDA x : x /= name),
                        !.ok = removed]
    IN  IF removed /\ m.enabled
        THEN LET d == disable(m1, w)
                 e == enable(d.m, d.w, enable_again(m), env)
             IN  [m |-> [e.m EXCEPT !.ok = removed], w |-> e.w]
        ELSE [m |-> m1, w |-> w]

InitManager ==
    /\ mode = "manager"
    /\ det = DetectorReset
    /\ DetBookIdle /\ FeedIdle /\ OrchIdle /\ GenIdle /\ LockIdle
    /\ CallIdle /\ UtfIdle
    /\ input = <<>> /\ output = <<>>
    /\ \E arch \in {"qwen2", "llama"} :
         g_state = [ModelStateInit("STRICT", TRUE) EXCEPT
                       !.model = TRUE, !.ctx = TRUE,
                       !.sampler = Stages(standard_stages(DefaultSamplerParams)),
                       !.arch = arch, !.builtin_template = TRUE]
    /\ heap = <<>> /\ uaf = FALSE /\ upd = NoUpdate /\ last_clone = "none"
    /\ manager = [registeredTools |-> <<>>, enabled |-> FALSE, ok |-> TRUE,
                  config |-> NoConfig, built |-> NoConfig]

ManagerOthers ==
    <<mode, det, detBook, feedVars, orchVars, genVars, lockVars, res, utfVars,
      input, output>>

\* registerTool(tool)
RegisterTool(name) ==
    /\ mode = "manager"
    /\ manager' =
         IF \E k \in DOMAIN manager.registeredTools : manager.registeredTools[k] = name
         THEN [manager EXCEPT !.ok = FALSE]
         ELSE [manager EXCEPT !.registeredTools = Append(@, name), !.ok = TRUE]
    /\ called' = "registerTool"
    /\ UNCHANGED stateVars
    /\ UNCHANGED ManagerOthers

UnregisterTool(name, env) ==
    /\ mode = "manager" /\ HeapRoom
    /\ LET r == unregisterTool(manager, Cur, name, env)
       IN  /\ manager' = r.m
           /\ Becomes(r.w)
    /\ called' = "unregisterTool"
    /\ UNCHANGED ManagerOthers

Enable(config, env) ==
    /\ mode = "manager" /\ HeapRoom
    /\ LET r == enable(manager, Cur, config, env)
       IN  /\ manager' = r.m
           /\ Becomes(r.w)
    /\ called' = "enable"
    /\ UNCHANGED ManagerOthers

Disable ==
    /\ mode = "manager"
    /\ LET r == disable(manager, Cur)
       IN  /\ manager' = r.m
           /\ Becomes(r.w)
    /\ called' = "disable"
    /\ UNCHANGED ManagerOthers

\* one compile result per grammar update of this specification: the first
\* attempt compiles, or none does
ManagerEnvs ==
    { [typed |-> TRUE, generic |-> TRUE, vocab |-> TRUE, ok |-> ok] :
        ok \in {{}} \cup { {<<"typed", m>>, <<"generic", m>>} : m \in GrammarModes } }

NextManager ==
    \/ \E name \in ToolNames : RegisterTool(name)
    \/ \E name \in ToolNames, env \in ManagerEnvs : UnregisterTool(name, env)
    \/ \E config \in Configs, env \in ManagerEnvs : Enable(config, env)
    \/ Disable

SpecManager == InitManager /\ [][NextManager]_vars


(***************************************************************************)
(* SpecRace: threads inside nativeSetToolsJson / nativeEnableToolCalling.  *)
(* Neither takes a mutex, so the statements of the calls and of            *)
(* update_grammar_if_needed interleave; each action is one statement.      *)
(* A canonical grammar carries the catalog text it was compiled from.      *)
(***************************************************************************)
RaceCatalogs == {"A", "B"}

\* a thread's position and the grammar strings it has built
RaceAt(where, src) == [at |-> where, src |-> src]

\* llama_sampler_init_grammar on grammar strings built from the text src
AllocGrammar(h, src) ==
    Append(h, [kind |-> "canonical", frees |-> 0, src |-> src])

InitRace ==
    /\ mode = "race"
    /\ det = DetectorReset
    /\ DetBookIdle /\ FeedIdle /\ OrchIdle /\ GenIdle /\ ExtraIdle
    /\ g_init_mtx = 0 /\ g_generate_mtx = 0
    /\ tpc = [t \in Threads |-> RaceAt("idle", "")]
    /\ uaf = FALSE /\ upd = NoUpdate /\ last_clone = "none"
    /\ \E held \in BOOLEAN :
         /\ g_state = [ModelStateInit("STRICT", TRUE) EXCEPT
                          !.model = TRUE, !.ctx = TRUE,
                          !.sampler = Stages(standard_stages(DefaultSamplerParams)),
                          !.arch = "qwen2", !.builtin_template = TRUE,
                          !.tools_enabled = held,
                          !.tools_json = IF held THEN "A" ELSE "",
                          !.cached_tools_json = IF held THEN "A" ELSE "",
                          !.grammar_needs_rebuild = ~held,
                          !.grammar_sampler = IF held THEN 1 ELSE NULL]
         /\ heap = IF held THEN AllocGrammar(<<>>, "A") ELSE <<>>

RaceOthers ==
    <<mode, det, detBook, feedVars, orchVars, genVars, extraVars, g_init_mtx,
      g_generate_mtx, uaf, upd, last_clone>>

\* g_state.tools_json = ...
RaceStore(t, text) ==
    /\ mode = "race" /\ tpc[t].at = "idle"
    /\ g_state' = [g_state EXCEPT !.tools_json = text]
    /\ tpc' = [tpc EXCEPT ![t].at = "stored"]
    /\ UNCHANGED heap
    /\ UNCHANGED RaceOthers

\* g_state.tools_enabled = !g_state.tools_json.empty()
RaceEnable(t) ==
    /\ mode = "race" /\ tpc[t].at = "stored"
    /\ g_state' = [g_state EXCEPT !.tools_enabled = (g_state.tools_json /= "")]
    /\ tpc' = [tpc EXCEPT ![t].at = "update"]
    /\ UNCHANGED heap
    /\ UNCHANGED RaceOthers

\* maybe_init_grammar and the tests at the head of update_grammar_if_needed
RaceCheck(t) ==
    /\ mode = "race" /\ tpc[t].at = "update"
    /\ tpc' = [tpc EXCEPT ![t].at =
                  IF ~g_state.tools_enabled \/ can_reuse(g_state)
                  THEN "done" ELSE "test"]
    /\ UNCHANGED <<g_state, heap>>
    /\ UNCHANGED RaceOthers

\* if (grammar_sampler)
RaceTest(t) ==
    /\ mode = "race" /\ tpc[t].at = "test"
    /\ tpc' = [tpc EXCEPT ![t].at =
                  IF g_state.grammar_sampler /= NULL THEN "free" ELSE "build"]
    /\ UNCHANGED <<g_state, heap>>
    /\ UNCHANGED RaceOthers

\* llama_sampler_free(grammar_sampler); a null argument is ignored
RaceFree(t) ==
    /\ mode = "race" /\ tpc[t].at = "free"
    /\ heap' = IF g_state.grammar_sampler /= NULL
               THEN Free(heap, g_state.grammar_sampler) ELSE heap
    /\ tpc' = [tpc EXCEPT ![t].at = "clear"]
    /\ UNCHANGED g_state
    /\ UNCHANGED RaceOthers

\* grammar_sampler = nullptr
RaceClear(t) ==
    /\ mode = "race" /\ tpc[t].at = "clear"
    /\ g_state' = [g_state EXCEPT !.grammar_sampler = NULL]
    /\ tpc' = [tpc EXCEPT ![t].at = "build"]
    /\ UNCHANGED heap
    /\ UNCHANGED RaceOthers

\* build_tool_grammar_typed(tools_json), build_tool_grammar(tools_json)
RaceBuild(t) ==
    /\ mode = "race" /\ tpc[t].at = "build"
    /\ tpc' = [tpc EXCEPT ![t] = RaceAt("compile", g_state.tools_json)]
    /\ UNCHANGED <<g_state, heap>>
    /\ UNCHANGED RaceOthers

\* grammar_sampler = try_init_..(grammar): the first attempt compiles, or
\* every attempt leaves nullptr
RaceCompile(t, ok) ==
    /\ mode = "race" /\ tpc[t].at = "compile"
    /\ ok => HeapRoom
    /\ heap' = IF ok THEN AllocGrammar(heap, tpc[t].src) ELSE heap
    /\ g_state' = [g_state EXCEPT !.grammar_sampler =
                                     IF ok THEN Len(heap) + 1 ELSE NULL]
    /\ tpc' = [tpc EXCEPT ![t].at = "cache"]
    /\ UNCHANGED RaceOthers

\* cached_tools_json = tools_json; grammar_needs_rebuild = false;
RaceCache(t) ==
    /\ mode = "race" /\ tpc[t].at = "cache"
    /\ g_state' = cache_catalog(g_state)
    /\ tpc' = [tpc EXCEPT ![t].at = "done"]
    /\ UNCHANGED heap
    /\ UNCHANGED RaceOthers

NextRace ==
    \E t \in Threads :
        \/ \E text \in RaceCatalogs : RaceStore(t, text)
        \/ RaceEnable(t)
        \/ RaceCheck(t)
        \/ RaceTest(t)
        \/ RaceFree(t)
        \/ RaceClear(t)
        \/ RaceBuild(t)
        \/ \E ok \in BOOLEAN : RaceCompile(t, ok)
        \/ RaceCache(t)

SpecRace == InitRace /\ [][NextRace]_vars


(***************************************************************************)
(* SpecStop: g_stop_requested between nativeStopGeneration and the threads *)
(* inside nativeGenerateStream.  A thread's record keeps, besides its      *)
(* position and token count, whether a stop was requested since its call   *)
(* was invoked (owed) and the tokens it produced since then (after).       *)
(***************************************************************************)
StopAt(where) == [at |-> where, n |-> 0, owed |-> FALSE, after |-> 0]

InCall == {"invoked", "waiting", "setup", "test", "body"}

InitStop ==
    /\ mode = "stop"
    /\ det = DetectorReset
    /\ DetBookIdle /\ FeedIdle /\ OrchIdle /\ GenIdle /\ ExtraIdle
    /\ g_init_mtx = 0 /\ g_generate_mtx = 0
    /\ tpc = [t \in Threads |-> StopAt("idle")]
    /\ heap = <<>> /\ uaf = FALSE /\ upd = NoUpdate /\ last_clone = "none"
    /\ g_state = [ModelStateInit("STRICT", TRUE) EXCEPT
                     !.model = TRUE, !.ctx = TRUE,
                     !.sampler = Stages(standard_stages(DefaultSamplerParams)),
                     !.arch = "qwen2", !.builtin_template = TRUE]

StopOthers ==
    <<mode, det, detBook, feedVars, orchVars, extraVars, g_init_mtx, gen_i,
      pending, stream, roundText, detected, rejected_at, tool_span>>

\* nativeGenerateStream: is_ready and prepare_for_generation
StopInvoke(t) ==
    /\ mode = "stop" /\ tpc[t].at = "idle"
    /\ is_ready(g_state)
    /\ Becomes(prepare_for_generation(Cur))
    /\ tpc' = [tpc EXCEPT ![t] = StopAt("invoked")]
    /\ UNCHANGED <<stop_requested, g_generate_mtx>>
    /\ UNCHANGED StopOthers

\* g_stop_requested.store(false)
StopReset(t) ==
    /\ mode = "stop" /\ tpc[t].at = "invoked"
    /\ stop_requested' = FALSE
    /\ tpc' = [tpc EXCEPT ![t].at = "waiting"]
    /\ UNCHANGED <<stateVars, g_generate_mtx>>
    /\ UNCHANGED StopOthers

\* std::lock_guard<std::mutex> lock(g_generate_mtx)
StopLock(t) ==
    /\ mode = "stop" /\ tpc[t].at = "waiting"
    /\ g_generate_mtx = 0
    /\ g_generate_mtx' = t
    /\ tpc' = [tpc EXCEPT ![t].at = "setup"]
    /\ UNCHANGED <<stateVars, stop_requested>>
    /\ UNCHANGED StopOthers

\* tokenization, batch and prefill: on failure the call returns
StopSetup(t, ok) ==
    /\ mode = "stop" /\ tpc[t].at = "setup"
    /\ tpc' = [tpc EXCEPT ![t] = IF ok THEN [@ EXCEPT !.at = "test"]
                                 ELSE StopAt("idle")]
    /\ g_generate_mtx' = IF ok THEN g_generate_mtx ELSE 0
    /\ UNCHANGED <<stateVars, stop_requested>>
    /\ UNCHANGED StopOthers

\* for (...; i < to_generate && !g_stop_requested.load(); ...): when the
\* condition fails the call cleans up and returns
StopTest(t) ==
    /\ mode = "stop" /\ tpc[t].at = "test"
    /\ IF tpc[t].n < MaxTokens /\ ~stop_requested
       THEN /\ tpc' = [tpc EXCEPT ![t].at = "body"]
            /\ UNCHANGED g_generate_mtx
       ELSE /\ tpc' = [tpc EXCEPT ![t] = StopAt("idle")]
            /\ g_generate_mtx' = 0
    /\ UNCHANGED <<stateVars, stop_requested>>
    /\ UNCHANGED StopOthers

\* the body of the token loop: one token sampled, sent and decoded
StopToken(t) ==
    /\ mode = "stop" /\ tpc[t].at = "body"
    /\ tpc' = [tpc EXCEPT ![t].at = "test", ![t].n = @ + 1,
                          ![t].after = IF tpc[t].owed THEN @ + 1 ELSE @]
    /\ UNCHANGED <<stateVars, stop_requested, g_generate_mtx>>
    /\ UNCHANGED StopOthers

\* nativeStopGeneration
StopRequest ==
    /\ mode = "stop"
    /\ stop_requested' = TRUE
    /\ tpc' = [t \in Threads |->
                 [tpc[t] EXCEPT !.owed = @ \/ (tpc[t].at \in InCall)]]
    /\ UNCHANGED <<stateVars, g_generate_mtx>>
    /\ UNCHANGED StopOthers

NextStop ==
    \/ StopRequest
    \/ \E t \in Threads :
        \/ StopInvoke(t)
        \/ StopReset(t)
        \/ StopLock(t)
        \/ \E ok \in BOOLEAN : StopSetup(t, ok)
        \/ StopTest(t)
        \/ StopToken(t)

SpecStop == InitStop /\ [][NextStop]_vars


(***************************************************************************)
(* Reference reading of a byte string as JSON text: braces count only      *)
(* outside string literals, a literal runs from an unescaped quote to the  *)
(* next unescaped quote, a backslash escapes the following byte.           *)
(***************************************************************************)
RECURSIVE JsonScan(_, _, _)
JsonScan(s, i, q) ==
    IF i > Len(s) THEN q
    ELSE LET c == s[i] IN
         IF q.in_string
         THEN IF q.escaped THEN JsonScan(s, i + 1, [q EXCEPT !.escaped = FALSE])
              ELSE IF c = "\\" THEN JsonScan(s, i + 1, [q EXCEPT !.escaped = TRUE])
              ELSE IF c = "\"" THEN JsonScan(s, i + 1, [q EXCEPT !.in_string = FALSE])
              ELSE JsonScan(s, i + 1, q)
         ELSE IF c = "\"" THEN JsonScan(s, i + 1, [q EXCEPT !.in_string = TRUE])
              ELSE IF c = "{" THEN JsonScan(s, i + 1, [q EXCEPT !.depth = @ + 1])
              ELSE IF c = "}" THEN JsonScan(s, i + 1, [q EXCEPT !.depth = @ - 1])
              ELSE JsonScan(s, i + 1, q)

JsonState(s) == JsonScan(s, 1, [depth |-> 0, in_string |-> FALSE, escaped |-> FALSE])

\* s is exactly one brace-balanced object: it closes at its last byte and
\* at no earlier byte
IsWholeObject(s) ==
    /\ Len(s) >= 2
    /\ s[1] = "{"
    /\ JsonState(s).depth = 0
    /\ ~JsonState(s).in_string
    /\ \A k \in 1..(Len(s) - 1) : JsonState(SubSeq(s, 1, k)).depth >= 1

Contains(s, pat) ==
    \E i \in 1..(Len(s) - Len(pat) + 1) : SubSeq(s, i, i + Len(pat) - 1) = pat

(***************************************************************************)
(* C1                                                                      *)
(***************************************************************************)
\* C1 (as claimed): between any two calls, collecting implies
\* brace_depth >= 1, and not collecting implies an empty buffer and
\* brace_depth = 0; also right after accumulate has returned true.
C1_Original ==
    mode = "detector" =>
        /\ det.collecting => det.brace_depth >= 1
        /\ ~det.collecting => det.buf = <<>> /\ det.brace_depth = 0

\* C1 (amended): not collecting implies an empty buffer and brace_depth = 0
\* in every state; collecting implies brace_depth >= 1 as long as no
\* accumulate has returned true since the last reset; an accumulate that
\* returns true leaves collecting set with brace_depth = 0 and the buffer
\* kept, until reset.
C1_DetectorInvariant ==
    mode = "detector" =>
        /\ ~det.collecting => det.buf = <<>> /\ det.brace_depth = 0
        /\ det.collecting /\ ~completed => det.brace_depth >= 1
        /\ det.collecting => Len(det.buf) >= 1 /\ det.buf[1] = "{"
        /\ acc_ret => det.collecting /\ det.brace_depth = 0

C1_Witness ==
    mode = "detector" /\ acc_ret /\ det.collecting /\ det.brace_depth = 0 /\ Len(det.buf) > 2

(***************************************************************************)
(* C2                                                                      *)
(***************************************************************************)
\* C2 (as claimed): while an object is being collected the brace depth is
\* the depth counted outside string literals, and accumulate returns true
\* only at the closing brace of the top-level object.
C2_StringBracesIgnored ==
    mode = "detector" =>
        /\ det.collecting /\ ~completed => det.brace_depth = JsonState(det.buf).depth
        /\ acc_ret => IsWholeObject(det.buf)

(***************************************************************************)
(* C5                                                                      *)
(***************************************************************************)
\* C5: once accumulate has signalled completion, extract_tool_call succeeds
\* iff the buffer contains "tool_calls" or both "name" and "arguments"; with
\* "tool_calls" the payload is the buffer, otherwise it is the buffer
\* wrapped as {"tool_calls":[<buffer>]}.
C5_ExtractPolicy ==
    mode = "detector" /\ acc_ret /\ ext.done =>
        LET tc == Contains(det.buf, <<"\"", "t", "o", "o", "l", "_", "c", "a", "l", "l", "s", "\"">>)
            nm == Contains(det.buf, <<"\"", "n", "a", "m", "e", "\"">>)
            ar == Contains(det.buf, <<"\"", "a", "r", "g", "u", "m", "e", "n", "t", "s", "\"">>)
        IN  /\ ext.ok <=> (tc \/ (nm /\ ar))
            /\ tc => ext.payload = det.buf
            /\ ~tc /\ nm /\ ar =>
                 ext.payload =
                    <<"{", "\"", "t", "o", "o", "l", "_", "c", "a", "l", "l", "s", "\"", ":", "[">>
                    \o det.buf \o <<"]", "}">>

\* a bare {"name" ... "arguments" ...} object was extracted and wrapped
C5_Witness ==
    /\ mode = "detector" /\ acc_ret /\ ext.done /\ ext.ok
    /\ ~Contains(det.buf, TOOL_CALLS_KEY)
    /\ Len(ext.payload) = Len(det.buf) + 17


(***************************************************************************)
(* C6                                                                      *)
(***************************************************************************)
\* position of the first "{" of s, 0 when there is none
FirstBrace(s) ==
    IF \E k \in 1..Len(s) : s[k] = "{"
    THEN CHOOSE k \in 1..Len(s) : s[k] = "{" /\ \A j \in 1..(k - 1) : s[j] /= "{"
    ELSE 0

\* the object end positions e for which s[p..e] is one whole object
ObjectEnds(s, p) == { e \in p..Len(s) : IsWholeObject(SubSeq(s, p, e)) }

\* s holds exactly one top-level object, and it begins at the first "{"
HasOneObject(s) ==
    /\ FirstBrace(s) > 0
    /\ ObjectEnds(s, FirstBrace(s)) /= {}
    /\ LET e == CHOOSE x \in ObjectEnds(s, FirstBrace(s)) : TRUE IN
         \A p2 \in (e + 1)..Len(s) : ObjectEnds(s, p2) = {}

TheObject(s) ==
    SubSeq(s, FirstBrace(s), CHOOSE x \in ObjectEnds(s, FirstBrace(s)) : TRUE)

FeedDone == mode = "feed" /\ (acc_ret \/ pos = Len(feed_stream))

\* C6 (as claimed): a byte stream holding exactly one top-level JSON object
\* O from its first "{" leaves the buffer equal to O, byte for byte, once it
\* has been fed one byte at a time.
C6_BufferIsTheObject ==
    FeedDone /\ HasOneObject(feed_stream) => det.buf = TheObject(feed_stream)


(***************************************************************************)
(* Claims about one generation round and about generateWithTools           *)
(***************************************************************************)
\* the native call of the current round has returned without a decoder error
RoundEnded ==
    /\ mode = "orch" /\ prefills >= 1
    /\ \/ pc = "executing"
       \/ pc = "finished" /\ last_error \in {"none", "parse_failure", "max_rounds"}

\* the decoded characters of the round, in decoder order, without the bytes
\* of the tool call that was detected (tool_span is <<0, 0>> without one)
RECURSIVE Outside(_, _, _)
Outside(s, span, k) ==
    IF k > Len(s) THEN <<>>
    ELSE IF k >= span[1] /\ k <= span[2] THEN Outside(s, span, k + 1)
    ELSE <<s[k].c>> \o Outside(s, span, k + 1)

\* C3 (as claimed): at the end of a round the concatenation of the on_token
\* deliveries is the decoded character stream, in order, with only the bytes
\* of the detected tool-call JSON removed.
C3_TokensAreStreamMinusToolCall ==
    RoundEnded => roundText = Outside(stream, tool_span, 1)

\* C4 (as claimed): no byte the detector consumed while collecting is ever
\* passed to on_token.
C4_Original ==
    mode = "orch" =>
        \A k \in 1..Len(stream) : ~(stream[k].collected /\ stream[k].delivered)

\* C4 (amended): no byte of a detected tool call's JSON is passed to
\* on_token, and no chunk is passed to on_token while the detector is still
\* collecting after consuming it; the collected bytes that do reach
\* on_token are those of the chunk in which an object was completed and
\* rejected by extract_tool_call (the detector is reset before the chunk is
\* forwarded).
C4_ToolCallJsonWithheld ==
    mode = "orch" =>
        /\ detected.present =>
             /\ tool_span[1] >= 1 /\ tool_span[2] <= Len(stream)
             /\ [k \in 1..(tool_span[2] - tool_span[1] + 1) |->
                    stream[tool_span[1] + k - 1].c] = det.buf
             /\ \A k \in tool_span[1]..tool_span[2] : ~stream[k].delivered
        /\ \A k \in 1..Len(stream) :
             stream[k].collected /\ stream[k].delivered
                => stream[k].chunk \in rejected_at
        /\ det.collecting /\ pc \in {"gen", "body", "fwd"} /\ Len(stream) > 0
             => ~stream[Len(stream)].delivered

\* a tool call spread over several chunks was detected and none of it sent
C4_Witness ==
    /\ mode = "orch" /\ detected.present
    /\ tool_span[2] - tool_span[1] >= 13
    /\ \E k \in 1..Len(stream) : stream[k].chunk = 0 /\ stream[k].collected
    /\ \E k \in 1..Len(stream) : stream[k].chunk = 2 /\ stream[k].collected

\* C7: the message list is [system, user] followed by one (assistant, tool)
\* pair per executed tool call: 2 + 2 * round entries whenever a round's
\* list is serialised, one more (the assistant message) while the executor
\* runs, and 2 + 2 * n_exec entries when the conversation has ended.
MessagesWellFormed(n) ==
    /\ Len(messages) = n
    /\ n >= 1 => messages[1].role = "system"
    /\ n >= 2 => messages[2].role = "user"
    /\ \A k \in 3..n :
         messages[k].role = IF k % 2 = 1 THEN "assistant" ELSE "tool"

C7_MessageListGrowth ==
    mode = "orch" =>
        /\ pc \in {"prefill", "gen", "body", "fwd"} =>
             MessagesWellFormed(2 + 2 * round) /\ n_exec = round
        /\ pc = "executing" => MessagesWellFormed(2 + 2 * round + 1)
        /\ pc = "finished" /\ tools_enabled => MessagesWellFormed(2 + 2 * n_exec)

\* a second round was serialised after a round whose executor threw
C7_Witness ==
    /\ mode = "orch" /\ pc = "prefill" /\ round = 1
    /\ Len(messages) = 4 /\ exec_outcome = "throws"

\* C8: when every one of the maxRounds rounds executed a tool call, exactly
\* maxRounds native generation calls were made, the budget error was
\* signalled once and on_done never; there are never more than maxRounds
\* generation calls.
C8_RoundBudget ==
    mode = "orch" =>
        /\ prefills <= maxRounds
        /\ pc = "finished" /\ tools_enabled /\ n_exec = maxRounds =>
             /\ prefills = maxRounds
             /\ n_error = 1
             /\ last_error = "max_rounds"
             /\ n_done = 0

C8_Witness ==
    /\ mode = "orch" /\ pc = "finished" /\ maxRounds >= 2 /\ n_exec = maxRounds
    /\ last_error = "max_rounds"

\* an object was completed and found not to be a valid tool call
InvalidCompletion == mode = "orch" /\ (rejected_at /= {} \/ parse_failed)

C10_ExecutorThrowContinues ==
    [][ mode = "orch" /\ pc = "executing" /\ pc' /= "executing"
          /\ exec_outcome' = "throws" =>
            /\ messages' = Append(messages,
                                  [role |-> "tool", content |-> "Error: exception"])
            /\ round' = round + 1
            /\ n_done' = n_done
            /\ IF round + 1 < maxRounds
               THEN /\ pc' = "prefill" /\ prefills' = prefills + 1
                    /\ n_error' = n_error
               ELSE /\ pc' = "finished" /\ prefills' = prefills
                    /\ n_error' = n_error + 1 /\ last_error' = "max_rounds"
      ]_vars

C10_Witness ==
    /\ mode = "orch" /\ exec_outcome = "throws" /\ pc = "gen" /\ round = 1
    /\ n_error = 0

InTokenLoop(p) == p \in {"gen", "body", "fwd"}

\* C11: while round r + 1 >= 1 is generating, the executor has returned or
\* thrown for every earlier round, and the message list ends with round r's
\* assistant message followed by the tool message carrying the executor's
\* result.
C11_ToolResultBeforeNextRound ==
    mode = "orch" /\ (pc = "prefill" \/ InTokenLoop(pc)) /\ round >= 1 =>
        /\ n_exec = round
        /\ exec_outcome \in ExecOutcomes
        /\ Len(messages) = 2 + 2 * round
        /\ messages[Len(messages) - 1] = [role |-> "assistant", content |-> "payload"]
        /\ messages[Len(messages)].role = "tool"
        /\ messages[Len(messages)].content =
              CASE exec_outcome = "ok" -> "result"
                [] exec_outcome = "is_error" -> "error_result"
                [] exec_outcome = "throws" -> "Error: exception"

C11_Witness ==
    /\ mode = "orch" /\ pc = "body" /\ round = 1 /\ exec_outcome = "ok"
    /\ Len(messages) = 4

\* C12 (as claimed): once a generation call has signalled a tool call,
\* nothing later in the decoded stream of that call is delivered to on_token,
\* one call signals at most one tool call, and at most one executor
\* invocation follows each round.
C12_NothingAfterToolCall ==
    mode = "orch" =>
        /\ n_detected <= prefills
        /\ n_exec <= prefills
        /\ detected.present =>
              \A k \in 1..Len(stream) : k > tool_span[2] => ~stream[k].delivered

\* C13 (as claimed): once stop_requested is set inside the token loop, a
\* call that ends without a native failure ends the conversation through
\* on_done, and on_error is not signalled.
C13_StopEndsWithOnDone ==
    [][ mode = "orch" /\ stop_requested /\ InTokenLoop(pc) /\ ~InTokenLoop(pc')
          /\ n_error' = n_error =>
            /\ pc' = "finished"
            /\ n_done' = n_done + 1
      ]_vars

\* C14 (as claimed): after the orchestrator's task has been cancelled while
\* the executor runs, no further generation round is started.
C14_NoRoundAfterCancel ==
    [][ mode = "orch" /\ cancelled => prefills' = prefills ]_vars

GrammarStages == {k \in DOMAIN g_state.sampler : g_state.sampler[k].kind = "grammar"}

\* C15: the canonical grammar is never a member of the chain; a chain holds
\* at most one grammar stage, a clone, in first place; a clone is live while
\* its chain is and freed once when the chain is dropped; the canonical is
\* freed once when it is replaced or released; no sampler object is freed
\* twice or used after it was freed.
C15_GrammarHandles ==
    mode = "grammar" =>
        /\ \A k \in DOMAIN g_state.sampler :
              LET x == g_state.sampler[k].h IN
                x /= NULL => /\ x /= g_state.grammar_sampler
                             /\ x \in DOMAIN heap
                             /\ heap[x].kind = "clone"
        /\ \A k \in GrammarStages : k = 1 /\ g_state.sampler[k].h /= NULL
        /\ \A x \in DOMAIN heap :
              /\ heap[x].frees <= 1
              /\ heap[x].kind = "clone" =>
                   (heap[x].frees = 0 <=>
                      \E k \in GrammarStages : g_state.sampler[k].h = x)
              /\ heap[x].kind = "canonical" =>
                   (heap[x].frees = 0 <=> g_state.grammar_sampler = x)
        /\ ~uaf

C15_Witness ==
    /\ mode = "grammar" /\ g_state.grammar_sampler /= NULL
    /\ GrammarStages /= {}
    /\ \E x \in DOMAIN heap : heap[x].kind = "clone" /\ heap[x].frees = 1

\* a step that is a call of update_grammar_if_needed with tools enabled and
\* a non-empty catalog
UpdateCall ==
    /\ mode = "grammar"
    /\ g_state.tools_enabled /\ g_state.tools_json /= ""
    /\ g_state'.tools_json = g_state.tools_json /\ g_state'.sampler = g_state.sampler
    /\ g_state'.tools_enabled /\ g_state'.model = g_state.model
    /\ upd'.path /= "none" /\ ~upd'.invalidated
    /\ \E env \in EnvsFor(g_state) : UpdateGrammar(env)

\* C16: such a call leaves the canonical grammar, the cached text and the
\* rebuild flag as they were and compiles nothing exactly when the catalog
\* text equals the cached text and no invalidate was issued since the last
\* update; after any such call the cache is current, so a second call in a
\* row has nothing to do.
C16_UpdateIsCached ==
    [][ UpdateCall =>
          /\ ( /\ g_state'.grammar_sampler = g_state.grammar_sampler
               /\ heap' = heap
               /\ g_state'.cached_tools_json = g_state.cached_tools_json
               /\ g_state'.grammar_needs_rebuild = g_state.grammar_needs_rebuild
               /\ upd'.attempts = <<>> /\ upd'.path = "reuse" )
             <=> ( /\ g_state.tools_json = g_state.cached_tools_json
                   /\ ~upd.invalidated )
          /\ g_state'.cached_tools_json = g_state'.tools_json
          /\ ~g_state'.grammar_needs_rebuild
      ]_vars

C16_Witness ==
    /\ mode = "grammar" /\ upd.path = "reuse"
    /\ g_state.grammar_sampler /= NULL /\ g_state.tools_enabled
    /\ Len(heap) >= 2

\* C17: when the grammar strings cannot be built or no attempt compiles, the
\* call leaves tool calling enabled, no canonical grammar, the catalog text
\* cached and the rebuild flag clear; and a call that finds this state (same
\* catalog, flag clear, no grammar) makes no compile attempt.
C17_FailureIsCached ==
    [][ UpdateCall =>
          /\ upd'.path \in {"no_grammar_string", "compiled"} /\ upd'.g = NoGrammar =>
                /\ g_state'.tools_enabled
                /\ g_state'.grammar_sampler = NULL
                /\ g_state'.cached_tools_json = g_state.tools_json
                /\ ~g_state'.grammar_needs_rebuild
          /\ ( /\ g_state.grammar_sampler = NULL
               /\ g_state.cached_tools_json = g_state.tools_json
               /\ ~g_state.grammar_needs_rebuild ) =>
                /\ upd'.attempts = <<>>
                /\ g_state' = g_state /\ heap' = heap
      ]_vars

C17_Witness ==
    /\ mode = "grammar" /\ upd.path = "compiled" /\ upd.g = NoGrammar
    /\ Len(upd.attempts) = 4
    /\ g_state.tools_enabled /\ g_state.grammar_sampler = NULL
    /\ g_state.cached_tools_json = g_state.tools_json

\* the attempts in the claimed order, without those whose grammar string is
\* empty
ClaimedOrder ==
    LET gm == g_state.grammar_mode
        am == IF gm = "STRICT" THEN "LAZY" ELSE "STRICT"
        Has(a) == IF a[1] = "typed" THEN upd.typed ELSE upd.generic
    IN  SelectSeq(<< <<"typed", gm>>, <<"generic", gm>>,
                     <<"typed", am>>, <<"generic", am>> >>, Has)

\* C18: after a rebuild that reached the compile attempts, the attempts made
\* are the claimed order up to and including the first that compiles, and
\* the canonical grammar comes from that attempt (none if none compiles).
C18_AttemptOrder ==
    mode = "grammar" /\ upd.path = "compiled" =>
        LET order == ClaimedOrder
            good == {k \in 1..Len(order) : order[k] \in upd.ok}
            first == IF good = {} THEN Len(order)
                     ELSE CHOOSE k \in good : \A j \in good : k <= j
        IN  /\ upd.attempts = SubSeq(order, 1, first)
            /\ upd.g = IF good = {} THEN NoGrammar ELSE order[first]

C18_Witness ==
    /\ mode = "grammar" /\ upd.path = "compiled"
    /\ Len(upd.attempts) = 3 /\ upd.g /= NoGrammar
    /\ g_state.grammar_sampler /= NULL

ChainKinds == [k \in DOMAIN g_state.sampler |-> g_state.sampler[k].kind]

\* the claimed stages after the grammar for the parameter record p
ClaimedStages(p) ==
    LET Keep(kind) ==
            CASE kind = "mirostat" -> p.mirostat > 0
              [] kind = "temp" ->
                   p.mirostat <= 0 /\ p.temp > 0
                     /\ (p.temp - ONE > TEMP_EPS \/ ONE - p.temp > TEMP_EPS)
              [] kind = "top_k" -> p.mirostat <= 0
              [] kind = "top_p" -> p.mirostat <= 0 /\ p.topP < ONE
              [] kind = "min_p" -> p.mirostat <= 0 /\ p.minP > 0
              [] kind = "dist" -> p.mirostat <= 0 /\ p.temp > 0
              [] kind = "greedy" -> p.mirostat <= 0 /\ ~(p.temp > 0)
    IN  SelectSeq(<<"mirostat", "temp", "top_k", "top_p", "min_p", "dist", "greedy">>,
                  Keep)

\* C19 (as claimed): a composed chain is the grammar clone, present exactly
\* when tools are enabled and a canonical grammar exists, followed by the
\* claimed stages.
C19_Original ==
    mode = "sampler" /\ g_state.sampler /= <<>> =>
        ChainKinds =
          (IF g_state.tools_enabled /\ g_state.grammar_sampler /= NULL
           THEN <<"grammar">> ELSE <<>>)
          \o ClaimedStages(g_state.cached_sampler_params)

\* C19 (amended): the grammar clone is first exactly when tools are enabled,
\* a canonical grammar exists and cloning it succeeded; the stages after it
\* are as claimed.
C19_ChainComposition ==
    mode = "sampler" /\ g_state.sampler /= <<>> =>
        /\ ChainKinds =
             (IF /\ g_state.tools_enabled /\ g_state.grammar_sampler /= NULL
                 /\ last_clone /= "failed"
              THEN <<"grammar">> ELSE <<>>)
             \o ClaimedStages(g_state.cached_sampler_params)
        /\ last_clone = "failed" =>
             g_state.tools_enabled /\ g_state.grammar_sampler /= NULL

C19_Witness ==
    /\ mode = "sampler" /\ Len(g_state.sampler) = 6
    /\ g_state.sampler[1].kind = "grammar"


\* what a generation call reads: model, context, sampler chain, canonical
\* grammar
Resources ==
    <<g_state.model, g_state.ctx, g_state.sampler, g_state.grammar_sampler>>

\* C20: load, release and generation are mutually exclusive: in no step taken
\* while a thread is inside a generation call (before and after the step) is
\* the model, the context, the sampler chain or the canonical grammar freed
\* or replaced.
C20_LoadReleaseGenerateExclusive ==
    [][ \A t \in Threads :
          (mode = "lock" /\ tpc[t].at \in InGeneration
                          /\ tpc'[t].at \in InGeneration)
              => Resources' = Resources ]_vars


\* C21: the process-wide state is only touched under the initialisation
\* mutex or the generation mutex; in particular a generation request made
\* while another thread is in its token loop does not clear the KV cache (or
\* reset the sampler, which prepare_for_generation does in the same call).
C21_NoClearDuringTokenLoop ==
    [][ \A t \in Threads, u \in Threads :
          (/\ mode = "lock"
           /\ tpc[t].at = "generating" /\ tpc'[t].at = "generating"
           /\ tpc[u].at = "idle" /\ tpc'[u].at = "gen_wait")
              => g_state'.kv = g_state.kv ]_vars

\* a turn starts: nativeGenerateStream passes is_ready
TurnStarts(t) == tpc[t].at = "idle" /\ tpc'[t].at = "gen_wait"

\* the canonical grammar was compiled from the catalog text now in force
GrammarIsCurrent(s) ==
    /\ s.tools_enabled
    /\ s.grammar_sampler /= NULL
    /\ s.cached_tools_json = s.tools_json

\* C22: a change of the catalog text during a turn leaves the sampler chain
\* of that turn alone (no stage freed, none replaced), and a turn that starts
\* when the canonical grammar was compiled from the catalog in force samples
\* with a chain whose first stage is a clone of that grammar.
C22_CatalogChangeDuringTurn ==
    [][ mode = "lock" =>
          /\ \A t \in Threads :
                (/\ tpc[t].at \in InGeneration /\ tpc'[t] = tpc[t]
                 /\ g_state'.tools_json /= g_state.tools_json)
                    => /\ g_state'.sampler = g_state.sampler
                       /\ ~UsesChain(World(g_state', heap', uaf', upd', last_clone'),
                                      g_state'.sampler)
          /\ \A t \in Threads :
                (TurnStarts(t) /\ GrammarIsCurrent(g_state'))
                    => /\ g_state'.sampler /= <<>>
                       /\ g_state'.sampler[1].kind = "grammar"
                       /\ g_state'.sampler[1].h /= g_state'.grammar_sampler ]_vars


\* C29: the tool-calling-supported predicate is true for every loaded model
\* that has a chat template, whatever its architecture, and enabling tool
\* calling on such a model is not rejected.
C29_AnyModelWithTemplate ==
    (mode = "tools" /\ g_state.model /\ g_state.builtin_template)
        => /\ nativeIsToolCallingSupported(g_state)
           /\ enable_accepts(g_state)

\* C30: nativeEnableToolCalling leaves the system prompt and the
\* chat-template override as they were before the call.
C30_EnableKeepsPromptAndTemplate ==
    [][ (mode = "tools" /\ called' = "nativeEnableToolCalling")
          => /\ g_state'.system_prompt = g_state.system_prompt
             /\ g_state'.chat_template_override = g_state.chat_template_override
      ]_vars


\* the number of {"type":"function","function": wrappers around the value of
\* the "function" key at 0-based index at
RECURSIVE WrapDepth(_, _)
WrapDepth(s, at) ==
    LET v == skip_ws(s, at)
    IN  IF /\ v + 6 < Len(s)
           /\ SubSeq(s, v + 1, v + 6)
                = <<"{", TYPE_KEY, ":", FUNCTION_KEY, ",", FUNCTION_KEY>>
           /\ s[v + 7] = ":"
        THEN 1 + WrapDepth(s, v + 7)
        ELSE 0

\* the text has a function wrapper directly inside a function wrapper
DoublyNested(s) ==
    \E i \in 1..Len(s) :
        /\ s[i] = "{"
        /\ WrapDepth(s, i - 1) >= 2

\* C27: normalising twice gives what normalising once gives, and a text
\* without a doubly-nested function wrapper is returned as it is.
C27_NormaliseIdempotent ==
    mode = "normalise" =>
        /\ Len(output) = 2 => output[2] = output[1]
        /\ (Len(output) >= 1 /\ ~DoublyNested(input)) => output[1] = input


\* the exit paths the claim names
ClaimedExits ==
    {"normal_end", "tool_call", "stop_requested", "sampling_failed",
     "decode_failed", "prefill_failed", "context_overflow",
     "context_size_exceeded", "callback_exception"}

\* C23: every resource a generation call acquires is released exactly once
\* on every exit path: nothing is released that is not held, and when the
\* call has returned each resource was released as often as it was acquired
\* (and the generation mutex is free again).
C23_ReleasedExactlyOnce ==
    mode = "call" =>
        /\ \A x \in CallResources :
             /\ res.cnt[x].rel <= res.cnt[x].acq
             /\ res.cnt[x].acq <= 1
        /\ (g_generate_mtx /= 0)
             <=> (res.cnt["generate_mtx"].acq > res.cnt["generate_mtx"].rel)
        /\ tpc[1].at = "returned" =>
             \A x \in CallResources : res.cnt[x].rel = res.cnt[x].acq

C23_Witness ==
    /\ mode = "call" /\ tpc[1].at = "returned"
    /\ res.exit = "tool_call"
    /\ \A x \in CallResources : res.cnt[x].acq = 1 /\ res.cnt[x].rel = 1


\* the continuation bytes a lead byte announces (UTF-8 lead byte table);
\* -1 for a byte that is no lead byte
Announced(c) ==
    IF c < 128 THEN 0
    ELSE IF c >= 192 /\ c < 224 THEN 1
    ELSE IF c >= 224 /\ c < 240 THEN 2
    ELSE IF c >= 240 /\ c < 248 THEN 3
    ELSE -1

IsCont(c) == c >= 128 /\ c < 192

\* s is a sequence of complete code points
RECURSIVE CompleteCodePoints(_)
CompleteCodePoints(s) ==
    \/ s = <<>>
    \/ /\ Announced(s[1]) >= 0
       /\ Announced(s[1]) + 1 <= Len(s)
       /\ \A j \in 2..(Announced(s[1]) + 1) : IsCont(s[j])
       /\ CompleteCodePoints(SubSeq(s, Announced(s[1]) + 2, Len(s)))

\* s is the beginning of a code point that lacks continuation bytes
IncompleteCodePoint(s) ==
    /\ s /= <<>>
    /\ Announced(s[1]) >= Len(s)
    /\ \A j \in 2..Len(s) : IsCont(s[j])

\* the length of the longest suffix of s that is an incomplete code point
IncompleteSuffix(s) ==
    LET ns == { n \in 0..Len(s) :
                  n = 0 \/ IncompleteCodePoint(SubSeq(s, Len(s) - n + 1, Len(s))) }
    IN  CHOOSE n \in ns : \A m \in ns : m <= n

\* the bytes of s with the incomplete suffix replaced by U+FFFD
WithSuffixReplaced(s) ==
    SubSeq(s, 1, Len(s) - IncompleteSuffix(s))
        \o (IF IncompleteSuffix(s) > 0 THEN U_FFFD ELSE <<>>)

\* well-formed UTF-8, possibly cut inside its last code point
CutWellFormed(s) == CompleteCodePoints(SubSeq(s, 1, Len(s) - IncompleteSuffix(s)))

Flushed == mode = "utf8" /\ called = "flush"

C25_CompleteCodePointsOnly ==
    [][ mode = "utf8" =>
          /\ called' = "decode" => CompleteCodePoints(chunks'[Len(chunks')])
          /\ called' = "flush" =>
               chunks'[Len(chunks')]
                 = (IF pending_bytes_ /= <<>> THEN U_FFFD ELSE <<>>) ]_vars

C25_Witness ==
    /\ Flushed
    /\ raw = <<195, 128, 226, 128>>
    /\ chunks = <<<<>>, <<195, 128>>, <<>>, U_FFFD>>


\* C26: when a stop string appears in the decoded stream of a call, the
\* token loop is left as it is for end-of-turn, and the stop string is never
\* passed to on_token.
C26_StopStringEndsGeneration ==
    mode = "call" =>
        \A stop \in detect_stop_strings(g_state) :
            /\ (\E k \in DOMAIN Concat(chunks) : Concat(chunks)[k] = stop)
                  => tpc[1].at \in {"cleanup", "returned"}
            /\ \A k \in DOMAIN roundText : roundText[k] /= stop


\* a, b, c written as the members of an object: { a , b , c }
RECURSIVE Members(_)
Members(names) ==
    IF names = <<>> THEN <<>>
    ELSE IF Len(names) = 1 THEN names
    ELSE <<Head(names), ",">> \o Members(Tail(names))

ObjectOf(names) == <<"{">> \o Members(names) \o <<"}">>

\* declared parameters the required array names, and the others
DeclaredRequired(tool) ==
    SelectSeq(tool.params, LAMBDA name : name \in tool.required)
DeclaredOptional(tool) ==
    SelectSeq(tool.params, LAMBDA name : name \notin tool.required)

\* C28: the arguments rule of a tool accepts exactly the objects whose members
\* are all required parameters in declaration order followed by a
\* declaration-order prefix of the optional ones: only {} for a tool without
\* parameters, never {} with a required parameter, n+1 objects for n
\* optional-only parameters.
C28_TypedArgumentsLanguage ==
    (mode = "typed" /\ output /= <<>>) =>
        LET tool == input[1]
            req == DeclaredRequired(tool)
            opt == DeclaredOptional(tool)
            lang == accepted(output[1])
        IN  /\ lang = { ObjectOf(req \o SubSeq(opt, 1, k)) : k \in 0..Len(opt) }
            /\ tool.params = <<>> => lang = {<<"{", "}">>}
            /\ req /= <<>> => <<"{", "}">> \notin lang
            /\ req = <<>> => Cardinality(lang) = Len(opt) + 1

C28_Witness ==
    /\ mode = "typed" /\ output /= <<>>
    /\ Len(DeclaredRequired(input[1])) >= 1
    /\ Len(DeclaredOptional(input[1])) >= 2
    /\ Head(input[1].params) \notin input[1].required
    /\ Cardinality(accepted(output[1])) = 3


C32_OneTerminalCallback ==
    (mode = "call" /\ tpc[1].at = "returned") =>
        /\ res.on_error <= 1
        /\ IF res.on_error > 0 THEN res.on_done = 0 ELSE res.on_done = 1


\* C33: a load that ends with tools enabled, a non-empty catalog and a valid
\* grammar cache made its build attempt in that load: the update it runs after
\* release() does not take the cached state for the new model.
C33_ReloadRebuildsGrammar ==
    [][ ( /\ mode = "tools"
          /\ called' = "nativeLoadModel"
          /\ g_state'.model
          /\ g_state'.tools_enabled /\ g_state'.tools_json /= ""
          /\ ~needs_grammar_rebuild(g_state') )
        => upd'.path \in {"compiled", "no_grammar_string", "no_vocab"} ]_vars


\* C34: once nativeDisableToolCalling has returned, no canonical grammar is
\* held and the sampler chain generation samples through has no grammar stage.
C34_DisableDropsGrammar ==
    (mode = "tools" /\ called = "nativeDisableToolCalling") =>
        /\ g_state.grammar_sampler = NULL
        /\ \A k \in DOMAIN g_state.sampler : g_state.sampler[k].kind /= "grammar"


C36_UnregisterKeepsConfig ==
    [][ ( /\ mode = "manager" /\ called' = "unregisterTool"
          /\ isEnabled(manager, g_state)
          /\ manager'.registeredTools /= manager.registeredTools
          /\ manager'.registeredTools /= <<>> )
        => /\ isEnabled(manager', g_state')
           /\ g_state'.grammar_mode = g_state.grammar_mode
           /\ g_state'.use_typed_grammar = g_state.use_typed_grammar ]_vars


\* C37: with catalog-setting calls running on several threads, no canonical
\* grammar is freed twice, and when every call has returned the canonical
\* grammar held is alive and was compiled from the catalog stored then.
C37_ConcurrentCatalogCalls ==
    mode = "race" =>
        /\ \A x \in DOMAIN heap : heap[x].frees <= 1
        /\ ( /\ \A t \in Threads : tpc[t].at = "done"
             /\ g_state.grammar_sampler /= NULL )
           => /\ heap[g_state.grammar_sampler].frees = 0
              /\ heap[g_state.grammar_sampler].src = g_state.tools_json


\* C38: a stop requested while a generation call is between its invocation
\* and its return stays set until that call returns, and the call produces
\* at most one more token after the request.
C38_StopHonoured ==
    mode = "stop" =>
        \A t \in Threads :
            tpc[t].owed => (stop_requested /\ tpc[t].after <= 1)


\* C39: the tool list parsed from a doubly wrapped catalog is the list parsed
\* from its singly wrapped form and from its normalised form: one tool per
\* entry with the declared name, parameters and required names, so the typed
\* grammar built from it is the same.
C39_DoubleWrappedSameTools ==
    (mode = "extract" /\ input.parsed) =>
        /\ output.double = output.single
        /\ output.double = output.normalised
        /\ output.double = input.decl

C39_Witness ==
    /\ mode = "extract" /\ input.parsed
    /\ Len(output.double) = 2
    /\ \E k \in DOMAIN output.double[1].params :
          output.double[1].params[k].name = FUNCTION_KEY
    /\ output.double[2].required /= <<>>


\* C40: when the tools of a catalog have distinct names, no two rules of the
\* typed grammar built from it have the same name.
C40_RuleNamesUnique ==
    ( /\ mode = "names" /\ input.built
      /\ input.tools[1].name /= input.tools[2].name )
    => \A i \in DOMAIN output, j \in DOMAIN output :
          output[i] = output[j] => i = j

=============================================================================
